---- MODULE Spec2Model ----
(***************************************************************************)
(* A model of the programs of the python-sandbox repository.               *)
(*                                                                         *)
(* Unicorn Dash (src/Unicorn_dash/unicorn_dash.py): the Unicorn player     *)
(* object, the obstacle / collectible / power-up entities and the Game     *)
(* controller (handle_events, update).  Rendering, particles and sound     *)
(* change no state that gameplay reads and are left out.                   *)
(*                                                                         *)
(* Python floats are modelled in fixed point: a length is an integer       *)
(* number of 1/PX pixels.  Every speed, gravity and velocity of the source *)
(* is a whole number of these units, so positions are the exact sums the   *)
(* source computes in binary floating point.  The two agree except where a *)
(* float sum of 0.7 or 0.85 steps (EASY, NORMAL gravity) falls a rounding  *)
(* error short of a whole pixel the exact sum reaches: there the source    *)
(* lands, or touches an entity, one frame later than the model.  HARD uses *)
(* whole numbers and shows no such difference.  random.random() is an      *)
(* integer number of 1/RANDOM_UNITS.                                       *)
(***************************************************************************)
EXTENDS Integers, Sequences, FiniteSets, TLC

\* ------------------------------------------------------------------------
\* Configuration (CONFIG, DIFFICULTIES)
\* ------------------------------------------------------------------------

\* Units per pixel: 0.0008 px (the smallest speed increment) times 1.3 (the
\* dragon's speed factor) is a whole number of 1/100000 px.
PX == 100 * 1000

SCREEN_WIDTH == 900
SCREEN_HEIGHT == 500
GROUND_HEIGHT == 60
unicorn_width == 70
normal_height == 60
x_position == 100
duck_height == 35
max_jumps == 2
star_value == 50
coin_value == 25
shield_duration == 300
magnet_duration == 400
magnet_range == 150
screen_shake_duration == 15
death_animation_duration == 60

DifficultyNames == {"EASY", "NORMAL", "HARD"}

\* speed_increment 0.0008, 0.0012, 0.002 and gravity 0.7, 0.85, 1.0 in 1/PX px.
DIFFICULTIES ==
    [d \in DifficultyNames |->
        CASE d = "EASY" ->
               [initial_speed |-> 7 * PX, max_speed |-> 12 * PX,
                speed_increment |-> 80, min_obstacle_gap |-> 90,
                gravity |-> 70000, jump_strength |-> -16 * PX]
          [] d = "NORMAL" ->
               [initial_speed |-> 9 * PX, max_speed |-> 16 * PX,
                speed_increment |-> 120, min_obstacle_gap |-> 70,
                gravity |-> 85000, jump_strength |-> -17 * PX]
          [] d = "HARD" ->
               [initial_speed |-> 12 * PX, max_speed |-> 22 * PX,
                speed_increment |-> 200, min_obstacle_gap |-> 50,
                gravity |-> PX, jump_strength |-> -18 * PX]]

Min(a, b) == IF a <= b THEN a ELSE b
Max(a, b) == IF a >= b THEN a ELSE b

\* The top of an entity of height h (in pixels) standing on the ground.
GroundY(h) == (SCREEN_HEIGHT - GROUND_HEIGHT - h) * PX

\* ------------------------------------------------------------------------
\* Unicorn (the player)
\* ------------------------------------------------------------------------

\* Unicorn.__init__
NewUnicorn(d) ==
    [x |-> x_position * PX,
     y |-> GroundY(normal_height),
     height |-> normal_height,
     velocity_y |-> 0,
     is_jumping |-> FALSE,
     is_ducking |-> FALSE,
     jump_count |-> 0,
     difficulty |-> d,
     shield_active |-> FALSE,
     shield_timer |-> 0,
     magnet_active |-> FALSE,
     magnet_timer |-> 0,
     is_dying |-> FALSE,
     death_timer |-> 0,
     death_rotation |-> 0,
     death_velocity_y |-> -10 * PX,
     death_velocity_x |-> 2 * PX]

\* Unicorn.stand_up
stand_up(u) ==
    IF u.is_ducking
    THEN [u EXCEPT !.is_ducking = FALSE,
                   !.height = normal_height,
                   !.y = GroundY(normal_height)]
    ELSE u

\* Variants of the test of Unicorn.jump, to tell whether a property depends
\* on it: one jump too many, and no double jump.
CanJumpOnceMore(u) == u.jump_count <= max_jumps
CanJumpOnce(u) == u.jump_count < max_jumps - 1

\* The test of Unicorn.jump that lets a press through.
CanJump(u) == u.jump_count < max_jumps

\* Unicorn.jump: the value it returns.
jump_returns(u) ==
    /\ ~u.is_dying
    /\ ~u.is_ducking
    /\ CanJump(u)

\* A variant of Unicorn.jump without its early returns: a dying or ducking
\* player jumps like a running one.
jumpAnyway(u) ==
    IF CanJump(u)
    THEN [u EXCEPT !.velocity_y = DIFFICULTIES[u.difficulty].jump_strength,
                   !.is_jumping = TRUE,
                   !.jump_count = u.jump_count + 1]
    ELSE u

\* Unicorn.jump: the player after the call.
jump(u) ==
    IF u.is_dying THEN u
    ELSE IF u.is_ducking THEN stand_up(u)
    ELSE IF CanJump(u)
         THEN [u EXCEPT !.velocity_y = DIFFICULTIES[u.difficulty].jump_strength,
                        !.is_jumping = TRUE,
                        !.jump_count = u.jump_count + 1]
         ELSE u

\* A variant of Unicorn.duck that does not look at is_jumping.
duck_while_jumping(u) ==
    IF ~u.is_ducking /\ ~u.is_dying
    THEN [u EXCEPT !.is_ducking = TRUE,
                   !.height = duck_height,
                   !.y = GroundY(duck_height)]
    ELSE u

\* A variant of Unicorn.duck that lowers the height and leaves y alone.
duck_keeping_y(u) ==
    IF ~u.is_jumping /\ ~u.is_ducking /\ ~u.is_dying
    THEN [u EXCEPT !.is_ducking = TRUE,
                   !.height = duck_height]
    ELSE u

\* Unicorn.duck
duck(u) ==
    IF ~u.is_jumping /\ ~u.is_ducking /\ ~u.is_dying
    THEN [u EXCEPT !.is_ducking = TRUE,
                   !.height = duck_height,
                   !.y = GroundY(duck_height)]
    ELSE u

\* A variant of start_death_animation whose animation is one tick short.
StartDeathShort(u) ==
    [u EXCEPT !.is_dying = TRUE,
              !.death_timer = death_animation_duration - 1,
              !.death_velocity_y = -8 * PX]

\* Unicorn.start_death_animation
start_death_animation(u) ==
    [u EXCEPT !.is_dying = TRUE,
              !.death_timer = death_animation_duration,
              !.death_velocity_y = -8 * PX]

\* Unicorn.activate_shield
activate_shield(u) ==
    [u EXCEPT !.shield_active = TRUE, !.shield_timer = shield_duration]

\* Unicorn.activate_magnet
activate_magnet(u) ==
    [u EXCEPT !.magnet_active = TRUE, !.magnet_timer = magnet_duration]

\* Unicorn.update, the death animation branch.
UpdateDying(u) ==
    LET vy == u.death_velocity_y + PX \div 2
    IN  [u EXCEPT !.death_timer = u.death_timer - 1,
                  !.death_rotation = u.death_rotation + 15,
                  !.death_velocity_y = vy,
                  !.y = u.y + vy,
                  !.x = u.x + u.death_velocity_x]

\* A variant of the ground collision that leaves jump_count as it finds it.
UpdatePhysicsKeepingCount(u, down) ==
    LET vy == u.velocity_y + DIFFICULTIES[u.difficulty].gravity
        y1 == u.y + vy
        ground_y == GroundY(u.height)
        fell == [u EXCEPT !.velocity_y = vy, !.y = y1]
        landed == [u EXCEPT !.y = ground_y,
                            !.velocity_y = 0,
                            !.is_jumping = FALSE]
    IN  IF y1 >= ground_y
        THEN IF landed.is_ducking /\ ~down THEN stand_up(landed) ELSE landed
        ELSE fell

\* Unicorn.update, gravity and the ground collision; down is the state of the
\* DOWN key (pygame.key.get_pressed()[K_DOWN]).
UpdatePhysics(u, down) ==
    LET vy == u.velocity_y + DIFFICULTIES[u.difficulty].gravity
        y1 == u.y + vy
        ground_y == GroundY(u.height)
        fell == [u EXCEPT !.velocity_y = vy, !.y = y1]
        landed == [u EXCEPT !.y = ground_y,
                            !.velocity_y = 0,
                            !.is_jumping = FALSE,
                            !.jump_count = 0]
    IN  IF y1 >= ground_y
        THEN IF landed.is_ducking /\ ~down THEN stand_up(landed) ELSE landed
        ELSE fell

\* A variant of the power-up timers in which the shield does not count down.
UpdateTimersMagnetOnly(u) ==
    IF u.magnet_active
    THEN [u EXCEPT !.magnet_timer = u.magnet_timer - 1,
                   !.magnet_active = (u.magnet_timer - 1 > 0)]
    ELSE u

\* Unicorn.update, the power-up timers.
UpdateTimers(u) ==
    LET st == u.shield_timer - 1
        mt == u.magnet_timer - 1
        u1 == IF u.shield_active
              THEN [u EXCEPT !.shield_timer = st, !.shield_active = (st > 0)]
              ELSE u
    IN  IF u1.magnet_active
        THEN [u1 EXCEPT !.magnet_timer = mt, !.magnet_active = (mt > 0)]
        ELSE u1

\* Unicorn.update
Unicorn_update(u, down) ==
    IF u.is_dying THEN UpdateDying(u)
    ELSE UpdateTimers(UpdatePhysics(u, down))

\* Unicorn.get_rect: the hit-box; pygame.Rect truncates its float arguments.
Trunc(v) == IF v >= 0 THEN v \div PX ELSE -((-v) \div PX)

Rect(x, y, w, h) == [x |-> Trunc(x), y |-> Trunc(y), w |-> w, h |-> h]

Unicorn_get_rect(u) ==
    IF u.is_ducking
    THEN Rect(u.x + 10 * PX, u.y + 5 * PX, unicorn_width - 15, u.height - 5)
    ELSE Rect(u.x + 15 * PX, u.y + 10 * PX, unicorn_width - 25, u.height - 15)

\* pygame.Rect.colliderect: the rectangles overlap (touching edges do not).
colliderect(a, b) ==
    /\ a.w > 0 /\ a.h > 0 /\ b.w > 0 /\ b.h > 0
    /\ a.x < b.x + b.w
    /\ a.y < b.y + b.h
    /\ a.x + a.w > b.x
    /\ a.y + a.h > b.y

\* ------------------------------------------------------------------------
\* Obstacles, collectibles, power-ups
\* ------------------------------------------------------------------------

RockVariants == {"small", "medium", "large", "crystal"}

RockWidth(v) ==
    CASE v = "small" -> 30 [] v = "medium" -> 40 [] v = "large" -> 55 [] OTHER -> 35

RockHeight(v) ==
    CASE v = "small" -> 35 [] v = "medium" -> 50 [] v = "large" -> 65 [] OTHER -> 55

\* Rock.__init__
NewRock(x, v) ==
    [kind |-> "rock", variant |-> v, x |-> x, y |-> GroundY(RockHeight(v)),
     width |-> RockWidth(v), height |-> RockHeight(v)]

\* The three altitudes random.choice picks from in Dragon.__init__ (pixels
\* above the ground line).
DragonAltitudes == {60, 100, 140}

\* Dragon.__init__; alt is the altitude drawn when force_high is false.
NewDragon(x, force_high, alt) ==
    [kind |-> "dragon", variant |-> "dragon", x |-> x,
     y |-> IF force_high THEN GroundY(60) ELSE GroundY(alt),
     width |-> 60, height |-> 40]

\* Rock.update, Dragon.update: the dragon flies at 1.3 times the scroll speed.
Obstacle_update(o, speed) ==
    IF o.kind = "dragon"
    THEN [o EXCEPT !.x = o.x - (speed * 13) \div 10]
    ELSE [o EXCEPT !.x = o.x - speed]

\* Rock.get_rect, Dragon.get_rect
Obstacle_get_rect(o) ==
    IF o.kind = "dragon"
    THEN Rect(o.x + 10 * PX, o.y + 10 * PX, o.width - 15, o.height - 15)
    ELSE Rect(o.x + 5 * PX, o.y + 10 * PX, o.width - 10, o.height - 10)

\* A variant of is_off_screen that reports an entity as soon as its left edge
\* has left the screen.
OffScreenAtLeftEdge(e) == e.x < 0

\* Rock.is_off_screen, Dragon.is_off_screen, Collectible.is_off_screen,
\* PowerUp.is_off_screen
is_off_screen(e) == e.x + e.width * PX < 0

\* Star.__init__
NewStar(x, y) ==
    [kind |-> "star", x |-> x, y |-> y, width |-> 30, height |-> 30,
     value |-> star_value, collected |-> FALSE]

\* Coin.__init__
NewCoin(x, y) ==
    [kind |-> "coin", x |-> x, y |-> y, width |-> 25, height |-> 25,
     value |-> coin_value, collected |-> FALSE]

\* PowerUp.__init__
NewPowerUp(x, y, t) ==
    [type |-> t, x |-> x, y |-> y, width |-> 35, height |-> 35,
     collected |-> FALSE]

\* Collectible.update, PowerUp.update
Entity_update(e, speed) == [e EXCEPT !.x = e.x - speed]

\* Collectible.get_rect, PowerUp.get_rect
Entity_get_rect(e) == Rect(e.x, e.y, e.width, e.height)

\* ------------------------------------------------------------------------
\* Sequence helpers
\* ------------------------------------------------------------------------

\* [f(x) for x in s]
MapSeq(s, f(_)) == [i \in 1..Len(s) |-> f(s[i])]

\* s with its i-th element removed
RemoveAt(s, i) == SubSeq(s, 1, i - 1) \o SubSeq(s, i + 1, Len(s))

\* ------------------------------------------------------------------------
\* Random draws
\* ------------------------------------------------------------------------

\* random.random() is modelled as a whole number of 1/RANDOM_UNITS in
\* [0, RANDOM_UNITS); a probability of the source is the same fraction.
RANDOM_UNITS == 4 * 1000
spawn_chance == 60            \* 0.015
powerup_spawn_chance == 20    \* 0.005
crystal_chance == 800         \* 0.2
star_chance == 1200           \* 0.3
force_high_chance == 1200     \* 0.3
max_dragon_chance == 1400     \* 0.35

\* A variant of the dragon chance without the clamp at 0.35.
DragonChanceUnclamped(score) == score

\* Game.spawn_obstacle: dragon_chance = min(0.35, score / 4000)
dragon_chance(score) == Min(max_dragon_chance, score)

\* The values of random.random() the model draws: both sides of every
\* threshold above.
RandomSamples == {0, max_dragon_chance - 1, max_dragon_chance, RANDOM_UNITS - 1}
CoinFlips == {0, RANDOM_UNITS - 1}

\* The altitudes (pixels above the ground line) of Game.spawn_collectible.
CollectibleAltitudes == {50, 100, 150}

\* The altitudes random.randint(80, 140) of Game.spawn_powerup may return;
\* the model draws the ends of the range and the highest altitude at which a
\* standing player still touches the power-up.
PowerUpAltitudes == {80, 84, 140}
PowerUpTypes == {"shield", "magnet"}

\* The draws of one update() that spawn nothing.
NoDraws ==
    [r_dragon |-> RANDOM_UNITS - 1, r_force |-> RANDOM_UNITS - 1, dragon_alt |-> 60,
     r_crystal |-> RANDOM_UNITS - 1, variant |-> "small",
     r_collect |-> RANDOM_UNITS - 1, collect_alt |-> 50, r_star |-> RANDOM_UNITS - 1,
     r_power |-> RANDOM_UNITS - 1, power_alt |-> 80, power_type |-> "shield"]

\* ------------------------------------------------------------------------
\* Game
\* ------------------------------------------------------------------------

\* HIGH_SCORE_FILE is modelled as [kind, text]: the file is "absent",
\* "unreadable" (open() raises an OSError other than FileNotFoundError) or a
\* "text", whose characters are tokens: the punctuation marks of JSON, the
\* decimal digits, and one token for each quoted string.
AbsentFile == [kind |-> "absent", text |-> <<>>]
DigitTokens == <<"0", "1", "2", "3", "4", "5", "6", "7", "8", "9">>
StringTokens == DifficultyNames \cup {"name"}

\* A variant of json.dump that writes 0 for every number.
json_dump_zeros(m) ==
    LET Listed(k) == k \in DOMAIN m
        keys == SelectSeq(<<"EASY", "NORMAL", "HARD", "name">>, Listed)
        RECURSIVE Members(_)
        Members(ks) ==
            IF ks = <<>> THEN <<>>
            ELSE <<Head(ks), ":", "0">>
                 \o (IF Len(ks) > 1 THEN <<",">> ELSE <<>>) \o Members(Tail(ks))
    IN  <<"{">> \o Members(keys) \o <<"}">>

\* json.dump of a dict from strings to non-negative ints, in the order
\* EASY, NORMAL, HARD of the default dict.
json_dump(m) ==
    LET RECURSIVE Digits(_)
        Digits(n) == IF n < 10 THEN <<DigitTokens[n + 1]>>
                     ELSE Digits(n \div 10) \o <<DigitTokens[(n % 10) + 1]>>
        Listed(k) == k \in DOMAIN m
        keys == SelectSeq(<<"EASY", "NORMAL", "HARD", "name">>, Listed)
        RECURSIVE Members(_)
        Members(ks) ==
            IF ks = <<>> THEN <<>>
            ELSE <<Head(ks), ":">> \o Digits(m[Head(ks)])
                 \o (IF Len(ks) > 1 THEN <<",">> ELSE <<>>) \o Members(Tail(ks))
    IN  <<"{">> \o Members(keys) \o <<"}">>

\* json.load of a text: [ok |-> FALSE] for json.JSONDecodeError, else the
\* value, for the texts that are an object of non-negative ints (a repeated
\* key keeps its last value; a number has no leading zero).
json_load(text) ==
    LET n == Len(text)
        failed == [ok |-> FALSE, value |-> <<>>]
        IsDigit(i) == i <= n /\ \E k \in 1..10 : DigitTokens[k] = text[i]
        RECURSIVE NumberEnd(_)
        NumberEnd(i) == IF IsDigit(i) THEN NumberEnd(i + 1) ELSE i
        RECURSIVE Number(_, _, _)
        Number(i, j, acc) ==
            IF i >= j THEN acc
            ELSE Number(i + 1, j,
                        10 * acc + (CHOOSE k \in 0..9 : DigitTokens[k + 1] = text[i]))
        RECURSIVE Members(_, _)
        Members(i, acc) ==
            LET j == NumberEnd(i + 2)
                with == [k \in DOMAIN acc \cup {text[i]} |->
                            IF k = text[i] THEN Number(i + 2, j, 0) ELSE acc[k]]
            IN  IF /\ i + 2 <= n
                   /\ text[i] \in StringTokens
                   /\ text[i + 1] = ":"
                   /\ j > i + 2
                   /\ (text[i + 2] = "0" => j = i + 3)
                THEN IF j = n /\ text[j] = "}" THEN [ok |-> TRUE, value |-> with]
                     ELSE IF j < n /\ text[j] = "," THEN Members(j + 1, with)
                     ELSE failed
                ELSE failed
    IN  IF n >= 2 /\ text[1] = "{"
        THEN IF n = 2 /\ text[2] = "}" THEN [ok |-> TRUE, value |-> <<>>]
             ELSE Members(2, <<>>)
        ELSE failed

\* Game._load_high_scores on a file that open() can read or that is absent:
\* only FileNotFoundError and json.JSONDecodeError yield the defaults.
ZeroScores == [d \in DifficultyNames |-> 0]

_load_high_scores(f) ==
    IF f.kind = "absent" THEN ZeroScores
    ELSE IF json_load(f.text).ok THEN json_load(f.text).value
    ELSE ZeroScores

\* Game._save_high_scores: the file after the call.  The write succeeds, or
\* open() raises and the file stays as it was; the exception is printed and
\* swallowed.
_save_high_scores(hs, f, written) ==
    IF written = "all" THEN [kind |-> "text", text |-> json_dump(hs)] ELSE f

\* A variant of reset_game that also clears the high score of the difficulty.
reset_game_clearing_high_score(g) ==
    [g EXCEPT !.unicorn = NewUnicorn(g.difficulty),
              !.obstacles = <<>>,
              !.collectibles = <<>>,
              !.powerups = <<>>,
              !.score = 0,
              !.coins_collected = 0,
              !.game_speed = DIFFICULTIES[g.difficulty].initial_speed,
              !.game_over = FALSE,
              !.obstacle_timer = 0,
              !.show_menu = TRUE,
              !.paused = FALSE,
              !.screen_shake = 0,
              !.high_scores = [g.high_scores EXCEPT ![g.difficulty] = 0]]

\* A variant of reset_game that leaves the pause as it is.
reset_game_keeping_pause(g) ==
    [g EXCEPT !.unicorn = NewUnicorn(g.difficulty),
              !.obstacles = <<>>,
              !.collectibles = <<>>,
              !.powerups = <<>>,
              !.score = 0,
              !.coins_collected = 0,
              !.game_speed = DIFFICULTIES[g.difficulty].initial_speed,
              !.game_over = FALSE,
              !.obstacle_timer = 0,
              !.show_menu = TRUE,
              !.screen_shake = 0]

\* Game.reset_game
reset_game(g) ==
    [g EXCEPT !.unicorn = NewUnicorn(g.difficulty),
              !.obstacles = <<>>,
              !.collectibles = <<>>,
              !.powerups = <<>>,
              !.score = 0,
              !.coins_collected = 0,
              !.game_speed = DIFFICULTIES[g.difficulty].initial_speed,
              !.game_over = FALSE,
              !.obstacle_timer = 0,
              !.show_menu = TRUE,
              !.paused = FALSE,
              !.screen_shake = 0]

\* Game.__init__
NewGame(f) ==
    reset_game(
        [unicorn |-> NewUnicorn("NORMAL"), obstacles |-> <<>>, collectibles |-> <<>>,
         powerups |-> <<>>, score |-> 0, coins_collected |-> 0, game_speed |-> 0,
         game_over |-> FALSE, obstacle_timer |-> 0, show_menu |-> TRUE,
         paused |-> FALSE, screen_shake |-> 0, difficulty |-> "NORMAL",
         high_scores |-> _load_high_scores(f)])

\* A variant of spawn_obstacle without the test on the score.
spawn_obstacle_any_score(score, rnd) ==
    IF rnd.r_dragon < dragon_chance(score)
    THEN NewDragon((SCREEN_WIDTH + 50) * PX, rnd.r_force < force_high_chance,
                   rnd.dragon_alt)
    ELSE IF rnd.r_crystal < crystal_chance
         THEN NewRock((SCREEN_WIDTH + 50) * PX, "crystal")
         ELSE NewRock((SCREEN_WIDTH + 50) * PX, rnd.variant)

\* Game.spawn_obstacle: the obstacle appended.
spawn_obstacle(score, rnd) ==
    IF rnd.r_dragon < dragon_chance(score) /\ score > 300
    THEN NewDragon((SCREEN_WIDTH + 50) * PX, rnd.r_force < force_high_chance,
                   rnd.dragon_alt)
    ELSE IF rnd.r_crystal < crystal_chance
         THEN NewRock((SCREEN_WIDTH + 50) * PX, "crystal")
         ELSE NewRock((SCREEN_WIDTH + 50) * PX, rnd.variant)

\* Game.spawn_collectible: the collectible appended.
spawn_collectible(rnd) ==
    IF rnd.r_star < star_chance
    THEN NewStar((SCREEN_WIDTH + 50) * PX, GroundY(rnd.collect_alt))
    ELSE NewCoin((SCREEN_WIDTH + 50) * PX, GroundY(rnd.collect_alt))

\* Game.spawn_powerup: the power-up appended.
spawn_powerup(rnd) ==
    NewPowerUp((SCREEN_WIDTH + 50) * PX, GroundY(rnd.power_alt), rnd.power_type)

\* A variant of the spawn gap without the floor min_obstacle_gap.
ObstacleGapUnclamped(d, score) == 100 - score \div 150

\* Game.update: gap = max(min_obstacle_gap, 100 - score // 150)
ObstacleGap(d, score) == Max(DIFFICULTIES[d].min_obstacle_gap, 100 - score \div 150)

\* A variant of the speed formula without the cap.
SpeedForUncapped(d, score) ==
    DIFFICULTIES[d].initial_speed + score * DIFFICULTIES[d].speed_increment

\* Game.update: game_speed = min(max_speed, initial_speed + score * speed_increment)
SpeedFor(d, score) ==
    Min(DIFFICULTIES[d].max_speed,
        DIFFICULTIES[d].initial_speed + score * DIFFICULTIES[d].speed_increment)

\* floor(sqrt(n)) by bisection on [lo, hi)
RECURSIVE IsqrtIn(_, _, _)
IsqrtIn(n, lo, hi) ==
    IF hi - lo <= 1 THEN lo
    ELSE LET mid == (lo + hi) \div 2
         IN  IF mid * mid <= n THEN IsqrtIn(n, mid, hi) ELSE IsqrtIn(n, lo, mid)

Isqrt(n) == IsqrtIn(n, 0, 32768)

\* Division rounding toward zero.
DivTrunc(a, b) == IF a >= 0 THEN a \div b ELSE -((-a) \div b)

\* A variant of the magnet whose pull does not fade with the distance.
MagnetPullConstant(c, u) ==
    LET dx == DivTrunc(u.x + (unicorn_width \div 2) * PX - c.x, PX \div 100)
        dy == DivTrunc(u.y + (u.height \div 2) * PX - c.y, PX \div 100)
        dist == Isqrt(dx * dx + dy * dy)
    IN  IF dist > 0 /\ dist < magnet_range * 100
        THEN [c EXCEPT !.x = c.x + DivTrunc(dx * 800, dist) * (PX \div 100),
                       !.y = c.y + DivTrunc(dy * 800, dist) * (PX \div 100)]
        ELSE c

\* Game.update, the magnet: the collectible after the pull toward the
\* player's centre.  Distances are computed in 1/100 px (CENTI units of 1/PX
\* px each), rounding toward zero.
CENTI == PX \div 100

MagnetPull(c, u) ==
    LET cx == u.x + (unicorn_width \div 2) * PX
        cy == u.y + (u.height \div 2) * PX
        dx == DivTrunc(cx - c.x, CENTI)
        dy == DivTrunc(cy - c.y, CENTI)
        R == magnet_range * 100
        near == dx > -R /\ dx < R /\ dy > -R /\ dy < R
        d2 == dx * dx + dy * dy
        dist == Isqrt(d2)
        speed == (8 * 100 * (R - dist)) \div R
    IN  IF near /\ d2 < R * R /\ dist > 0
        THEN [c EXCEPT !.x = c.x + DivTrunc(dx * speed, dist) * CENTI,
                       !.y = c.y + DivTrunc(dy * speed, dist) * CENTI]
        ELSE c

\* Game.update: the obstacles moved, the off-screen ones removed.
AdvanceObstacles(obs, speed) ==
    LET Moved(o) == Obstacle_update(o, speed)
        Keep(o) == ~is_off_screen(o)
    IN  SelectSeq(MapSeq(obs, Moved), Keep)

\* A variant of AdvanceEntities that removes the off-screen ones only.
AdvanceEntitiesOffScreenOnly(es, speed) ==
    LET Moved(e) == Entity_update(e, speed)
        Keep(e) == ~is_off_screen(e)
    IN  SelectSeq(MapSeq(es, Moved), Keep)

\* A variant of AdvanceEntities that removes the collected ones only.
AdvanceEntitiesCollectedOnly(es, speed) ==
    LET Moved(e) == Entity_update(e, speed)
        Keep(e) == ~e.collected
    IN  SelectSeq(MapSeq(es, Moved), Keep)

\* Game.update: collectibles or power-ups moved, the off-screen and the
\* collected ones removed.
AdvanceEntities(es, speed) ==
    LET Moved(e) == Entity_update(e, speed)
        Keep(e) == ~is_off_screen(e) /\ ~e.collected
    IN  SelectSeq(MapSeq(es, Moved), Keep)

\* Variants of Absorb, to tell whether a property depends on it: the shield
\* stays on, and the obstacle stays in the list.
AbsorbKeepingShield(obs, i, u) ==
    [obstacles |-> RemoveAt(obs, i), unicorn |-> u]
AbsorbKeepingObstacle(obs, i, u) ==
    [obstacles |-> obs,
     unicorn |-> [u EXCEPT !.shield_active = FALSE, !.shield_timer = 0]]

\* Game.update, a collision with the shield active: the shield is consumed
\* and obstacle i removed.
Absorb(obs, i, u) ==
    [obstacles |-> RemoveAt(obs, i),
     unicorn |-> [u EXCEPT !.shield_active = FALSE, !.shield_timer = 0]]

\* Game.update, "for obstacle in self.obstacles": the loop from index i on.
\* list.remove() inside the loop shifts the rest of the list left while the
\* iterator's index still advances.
RECURSIVE CollideObstacles(_, _, _, _)
CollideObstacles(obs, i, r, u) ==
    IF i > Len(obs) THEN [obstacles |-> obs, unicorn |-> u, fatal |-> FALSE]
    ELSE IF colliderect(r, Obstacle_get_rect(obs[i]))
         THEN IF u.shield_active
              THEN CollideObstacles(Absorb(obs, i, u).obstacles, i + 1, r,
                                    Absorb(obs, i, u).unicorn)
              ELSE [obstacles |-> obs, unicorn |-> u, fatal |-> TRUE]
         ELSE CollideObstacles(obs, i + 1, r, u)

\* Game.update, "for collectible in self.collectibles"
CollectAll(cs, r) ==
    [i \in 1..Len(cs) |->
        IF colliderect(r, Entity_get_rect(cs[i]))
        THEN [cs[i] EXCEPT !.collected = TRUE] ELSE cs[i]]

\* A variant of the scoring that counts one collectible per tick: the first
\* in the list that the player's hit-box meets.
SumValuesFirstHit(cs, r) ==
    LET hits == {i \in 1..Len(cs) : colliderect(r, Entity_get_rect(cs[i]))}
    IN  IF hits = {} THEN 0
        ELSE cs[CHOOSE i \in hits : \A j \in hits : i <= j].value

RECURSIVE SumValues(_, _)
SumValues(cs, r) ==
    IF cs = <<>> THEN 0
    ELSE (IF colliderect(r, Entity_get_rect(Head(cs))) THEN Head(cs).value ELSE 0)
         + SumValues(Tail(cs), r)

CountHits(cs, r) ==
    Cardinality({i \in 1..Len(cs) : colliderect(r, Entity_get_rect(cs[i]))})

\* Game.update, "for powerup in self.powerups": the player after the pick-ups.
RECURSIVE ActivateAll(_, _, _)
ActivateAll(ps, r, u) ==
    IF ps = <<>> THEN u
    ELSE ActivateAll(Tail(ps), r,
             IF colliderect(r, Entity_get_rect(Head(ps)))
             THEN IF Head(ps).type = "shield" THEN activate_shield(u)
                  ELSE activate_magnet(u)
             ELSE u)

\* Game.update, the screen shake countdown (runs in every state).
Shake(g) == [g EXCEPT !.screen_shake = IF g.screen_shake > 0 THEN g.screen_shake - 1 ELSE 0]

\* A variant of the game-over update in which the score keeps counting.
GameOverTickScoring(g, down) == [g EXCEPT !.score = g.score + 1]

\* Game.update while game_over: the death animation continues.
GameOverTick(g, down) ==
    IF g.unicorn.is_dying
    THEN LET u1 == Unicorn_update(g.unicorn, down)
         IN  [g EXCEPT !.unicorn =
                 IF u1.death_timer <= 0 THEN [u1 EXCEPT !.is_dying = FALSE] ELSE u1]
    ELSE g

\* A variant of the fatal collision that still counts the tick: the score is
\* incremented and the speed recomputed before the tick ends.
FatalCollisionScoring(g, obs, cs, ps, timer, u) ==
    [g EXCEPT !.unicorn = start_death_animation(u),
              !.obstacles = obs,
              !.collectibles = cs,
              !.powerups = ps,
              !.obstacle_timer = timer,
              !.screen_shake = screen_shake_duration,
              !.game_over = TRUE,
              !.score = g.score + 1,
              !.game_speed = SpeedFor(g.difficulty, g.score + 1),
              !.high_scores =
                  IF g.score > g.high_scores[g.difficulty]
                  THEN [g.high_scores EXCEPT ![g.difficulty] = g.score]
                  ELSE g.high_scores]

\* A variant of the fatal collision that records the session's score as the
\* high score whether it beats the stored one or not.
FatalCollisionOverwriting(g, obs, cs, ps, timer, u) ==
    [g EXCEPT !.unicorn = start_death_animation(u),
              !.obstacles = obs,
              !.collectibles = cs,
              !.powerups = ps,
              !.obstacle_timer = timer,
              !.screen_shake = screen_shake_duration,
              !.game_over = TRUE,
              !.high_scores = [g.high_scores EXCEPT ![g.difficulty] = g.score]]

\* Game.update, the fatal collision: screen shake, death animation, game over
\* and the high score; obs is the obstacle list and u the player at that point.
FatalCollision(g, obs, cs, ps, timer, u) ==
    [g EXCEPT !.unicorn = start_death_animation(u),
              !.obstacles = obs,
              !.collectibles = cs,
              !.powerups = ps,
              !.obstacle_timer = timer,
              !.screen_shake = screen_shake_duration,
              !.game_over = TRUE,
              !.high_scores =
                  IF g.score > g.high_scores[g.difficulty]
                  THEN [g.high_scores EXCEPT ![g.difficulty] = g.score]
                  ELSE g.high_scores]

\* A variant of the Playing tick whose power-up spawner does not look at the
\* score.
PlayingTickPowerUpAnyScore(g, down, rnd) ==
    LET u1 == Unicorn_update(g.unicorn, down)
        Pull(c) == MagnetPull(c, u1)
        cs0 == IF u1.magnet_active THEN MapSeq(g.collectibles, Pull)
               ELSE g.collectibles
        obs1 == AdvanceObstacles(g.obstacles, g.game_speed)
        cs1 == AdvanceEntities(cs0, g.game_speed)
        ps1 == AdvanceEntities(g.powerups, g.game_speed)
        timer1 == g.obstacle_timer + 1
        spawn == timer1 > ObstacleGap(g.difficulty, g.score)
        timer2 == IF spawn THEN 0 ELSE timer1
        obs2 == IF spawn THEN Append(obs1, spawn_obstacle(g.score, rnd)) ELSE obs1
        cs2 == IF rnd.r_collect < spawn_chance
               THEN Append(cs1, spawn_collectible(rnd)) ELSE cs1
        ps2 == IF rnd.r_power < powerup_spawn_chance
               THEN Append(ps1, spawn_powerup(rnd)) ELSE ps1
        r == Unicorn_get_rect(u1)
        hit == CollideObstacles(obs2, 1, r, u1)
        score1 == g.score + SumValues(cs2, r) + 1
    IN  IF hit.fatal
        THEN FatalCollision(g, hit.obstacles, cs2, ps2, timer2, hit.unicorn)
        ELSE [g EXCEPT !.unicorn = ActivateAll(ps2, r, hit.unicorn),
                       !.obstacles = hit.obstacles,
                       !.collectibles = CollectAll(cs2, r),
                       !.powerups = CollectAll(ps2, r),
                       !.obstacle_timer = timer2,
                       !.coins_collected = g.coins_collected + CountHits(cs2, r),
                       !.score = score1,
                       !.game_speed = SpeedFor(g.difficulty, score1)]

\* A variant of the Playing tick in which the spawners run before the entity
\* lists are moved and pruned.
PlayingTickSpawnFirst(g, down, rnd) ==
    LET u1 == Unicorn_update(g.unicorn, down)
        Pull(c) == MagnetPull(c, u1)
        cs0 == IF u1.magnet_active THEN MapSeq(g.collectibles, Pull)
               ELSE g.collectibles
        timer1 == g.obstacle_timer + 1
        spawn == timer1 > ObstacleGap(g.difficulty, g.score)
        timer2 == IF spawn THEN 0 ELSE timer1
        obs1 == IF spawn THEN Append(g.obstacles, spawn_obstacle(g.score, rnd))
                ELSE g.obstacles
        cs1 == IF rnd.r_collect < spawn_chance
               THEN Append(cs0, spawn_collectible(rnd)) ELSE cs0
        ps1 == IF rnd.r_power < powerup_spawn_chance /\ g.score > 200
               THEN Append(g.powerups, spawn_powerup(rnd)) ELSE g.powerups
        obs2 == AdvanceObstacles(obs1, g.game_speed)
        cs2 == AdvanceEntities(cs1, g.game_speed)
        ps2 == AdvanceEntities(ps1, g.game_speed)
        r == Unicorn_get_rect(u1)
        hit == CollideObstacles(obs2, 1, r, u1)
        score1 == g.score + SumValues(cs2, r) + 1
    IN  IF hit.fatal
        THEN FatalCollision(g, hit.obstacles, cs2, ps2, timer2, hit.unicorn)
        ELSE [g EXCEPT !.unicorn = ActivateAll(ps2, r, hit.unicorn),
                       !.obstacles = hit.obstacles,
                       !.collectibles = CollectAll(cs2, r),
                       !.powerups = CollectAll(ps2, r),
                       !.obstacle_timer = timer2,
                       !.coins_collected = g.coins_collected + CountHits(cs2, r),
                       !.score = score1,
                       !.game_speed = SpeedFor(g.difficulty, score1)]

\* Game.update while playing (not in the menu, not paused, not game over).
PlayingTick(g, down, rnd) ==
    LET u1 == Unicorn_update(g.unicorn, down)
        Pull(c) == MagnetPull(c, u1)
        cs0 == IF u1.magnet_active THEN MapSeq(g.collectibles, Pull)
               ELSE g.collectibles
        obs1 == AdvanceObstacles(g.obstacles, g.game_speed)
        cs1 == AdvanceEntities(cs0, g.game_speed)
        ps1 == AdvanceEntities(g.powerups, g.game_speed)
        timer1 == g.obstacle_timer + 1
        spawn == timer1 > ObstacleGap(g.difficulty, g.score)
        timer2 == IF spawn THEN 0 ELSE timer1
        obs2 == IF spawn THEN Append(obs1, spawn_obstacle(g.score, rnd)) ELSE obs1
        cs2 == IF rnd.r_collect < spawn_chance
               THEN Append(cs1, spawn_collectible(rnd)) ELSE cs1
        ps2 == IF rnd.r_power < powerup_spawn_chance /\ g.score > 200
               THEN Append(ps1, spawn_powerup(rnd)) ELSE ps1
        r == Unicorn_get_rect(u1)
        hit == CollideObstacles(obs2, 1, r, u1)
        score1 == g.score + SumValues(cs2, r) + 1
    IN  IF hit.fatal
        THEN FatalCollision(g, hit.obstacles, cs2, ps2, timer2, hit.unicorn)
        ELSE [g EXCEPT !.unicorn = ActivateAll(ps2, r, hit.unicorn),
                       !.obstacles = hit.obstacles,
                       !.collectibles = CollectAll(cs2, r),
                       !.powerups = CollectAll(ps2, r),
                       !.obstacle_timer = timer2,
                       !.coins_collected = g.coins_collected + CountHits(cs2, r),
                       !.score = score1,
                       !.game_speed = SpeedFor(g.difficulty, score1)]

\* The session is being played: update() runs the gameplay step.
Playing(g) == ~g.show_menu /\ ~g.paused /\ ~g.game_over

\* Game.update
Game_update(g, down, rnd) ==
    IF g.show_menu \/ g.paused THEN Shake(g)
    ELSE IF g.game_over THEN GameOverTick(Shake(g), down)
    ELSE PlayingTick(Shake(g), down, rnd)

\* Game.handle_events: a menu key or a restart starts a session.
StartSession(g, d) == [reset_game([g EXCEPT !.difficulty = d]) EXCEPT !.show_menu = FALSE]

Keys == {"K_1", "K_2", "K_3", "K_SPACE", "K_RETURN", "K_m", "K_p", "K_UP",
         "K_DOWN", "K_r", "K_x"}

DifficultyKey(k) ==
    CASE k = "K_1" -> "EASY" [] k = "K_2" -> "NORMAL" [] OTHER -> "HARD"

\* Game.handle_events, a KEYDOWN event while the menu is shown.
MenuKey(g, k) ==
    IF k \in {"K_1", "K_2", "K_3"} THEN StartSession(g, DifficultyKey(k))
    ELSE IF k \in {"K_SPACE", "K_RETURN"} THEN StartSession(g, g.difficulty)
    ELSE g

\* A variant of the game-over keys in which P toggles the pause.
GameOverKeyPausing(g, k) ==
    IF k = "K_SPACE" THEN StartSession(g, g.difficulty)
    ELSE IF k \in {"K_1", "K_2", "K_3"} THEN StartSession(g, DifficultyKey(k))
    ELSE IF k = "K_m" THEN [g EXCEPT !.show_menu = TRUE]
    ELSE IF k = "K_p" THEN [g EXCEPT !.paused = ~g.paused]
    ELSE g

\* Game.handle_events, a KEYDOWN event after game over.
GameOverKey(g, k) ==
    IF k = "K_SPACE" THEN StartSession(g, g.difficulty)
    ELSE IF k \in {"K_1", "K_2", "K_3"} THEN StartSession(g, DifficultyKey(k))
    ELSE IF k = "K_m" THEN [g EXCEPT !.show_menu = TRUE]
    ELSE g

\* Game.handle_events, a KEYDOWN event during normal gameplay.
PlayKey(g, k) ==
    IF k = "K_p" THEN [g EXCEPT !.paused = ~g.paused]
    ELSE IF k \in {"K_SPACE", "K_UP"}
         THEN IF ~g.paused THEN [g EXCEPT !.unicorn = jump(g.unicorn)] ELSE g
    ELSE IF k = "K_DOWN"
         THEN IF ~g.paused THEN [g EXCEPT !.unicorn = duck(g.unicorn)] ELSE g
    ELSE IF k = "K_r" THEN StartSession(g, g.difficulty)
    ELSE IF k = "K_m" THEN [g EXCEPT !.show_menu = TRUE]
    ELSE g

\* Game.handle_events, a KEYDOWN event of a key other than Q.
HandleKeyDown(g, k) ==
    IF g.show_menu THEN MenuKey(g, k)
    ELSE IF g.game_over THEN GameOverKey(g, k)
    ELSE PlayKey(g, k)

\* Game.handle_events, a KEYUP event.
HandleKeyUp(g, k) ==
    IF k = "K_DOWN" /\ ~g.game_over /\ ~g.show_menu
    THEN [g EXCEPT !.unicorn = stand_up(g.unicorn)]
    ELSE g

\* Game.handle_events, "Continuous key presses": the poll after the events.
PollKeys(g, down) ==
    IF ~g.game_over /\ ~g.show_menu /\ ~g.paused /\ down
    THEN [g EXCEPT !.unicorn = duck(g.unicorn)]
    ELSE g

\* One event of handle_events' loop applied to st = [game, keys_down]; an
\* event is <<"KEYDOWN", key>> or <<"KEYUP", key>>.
ApplyEvent(st, e) ==
    IF e[1] = "KEYDOWN"
    THEN [game |-> HandleKeyDown(st.game, e[2]),
          keys_down |-> (st.keys_down \/ e[2] = "K_DOWN")]
    ELSE [game |-> HandleKeyUp(st.game, e[2]),
          keys_down |-> (st.keys_down /\ e[2] # "K_DOWN")]

RECURSIVE ApplyEvents(_, _)
ApplyEvents(st, es) ==
    IF es = <<>> THEN st ELSE ApplyEvents(ApplyEvent(st, Head(es)), Tail(es))

\* One iteration of Game.run: handle_events on the events es, then update()
\* with the draws rnd.
RunFrame(st, es, rnd) ==
    LET s1 == ApplyEvents(st, es)
    IN  [game |-> Game_update(PollKeys(s1.game, s1.keys_down), s1.keys_down, rnd),
         keys_down |-> s1.keys_down]

\* ------------------------------------------------------------------------
\* Memory Match (src/Memory Game): the MemoryGame object is a record; a card
\* is a record of its face, its place and its flags.  The flip animation
\* (flip_progress, target_flip), the hover flag of the buttons and the
\* elapsed time are only drawn and are left out.  disable_until is kept
\* relative to the clock: it holds disable_until - time.time(), in tenths of
\* a second, and 0 once the clock has passed it.
\* ------------------------------------------------------------------------

\* DIFFICULTIES of memory_game.py
MemoryDifficulties ==
    [easy |-> [pairs |-> 6, cols |-> 3, rows |-> 4],
     medium |-> [pairs |-> 8, cols |-> 4, rows |-> 4],
     hard |-> [pairs |-> 10, cols |-> 5, rows |-> 4],
     expert |-> [pairs |-> 12, cols |-> 4, rows |-> 6]]

\* [(rank, suit) for suit in SUITS for rank in RANKS]
all_cards ==
    LET SUITS == <<"spades", "hearts", "diamonds", "clubs">>
        RANKS == <<"A", "2", "3", "4", "5", "6", "7", "8", "9", "10", "J", "Q", "K">>
    IN  [i \in 1..52 |-> <<RANKS[((i - 1) % 13) + 1], SUITS[((i - 1) \div 13) + 1]>>]

\* random.shuffle(s): the permutations drawn are those that cut the list at
\* sh.cut and then take every sh.stride-th element, for a stride that has
\* no factor in common with the length.
Shuffle(s, sh) ==
    [i \in 1..Len(s) |-> s[((sh.cut + sh.stride * (i - 1)) % Len(s)) + 1]]

\* MemoryGame.setup_menu, MemoryGame.setup_victory_buttons: the buttons, each
\* with its pygame.Rect and its difficulty_key or action.
Buttons(screen) ==
    IF screen = "menu"
    THEN LET keys == <<"easy", "medium", "hard", "expert">>
         IN  [i \in 1..4 |-> [x |-> 800 \div 2 - 150, y |-> 280 + (i - 1) * 70,
                              width |-> 300, height |-> 55, tag |-> keys[i]]]
    ELSE <<[x |-> 800 \div 2 - 150, y |-> 420, width |-> 300, height |-> 50,
            tag |-> "play_again"],
           [x |-> 800 \div 2 - 150, y |-> 485, width |-> 300, height |-> 50,
            tag |-> "menu"]>>

\* A variant of start_game whose deck holds the selected cards twice over in
\* the order drawn, the pair ids counted along the deck.
start_game_counting_pairs(m, difficulty_key, rnd) ==
    LET config == MemoryDifficulties[difficulty_key]
        selected == SubSeq(Shuffle(all_cards, rnd.first), 1, config.pairs)
        deck == Shuffle([i \in 1..(2 * config.pairs) |->
                            <<selected[((i - 1) % config.pairs) + 1][1],
                              selected[((i - 1) % config.pairs) + 1][2],
                              (i - 1) \div 2>>], rnd.second)
        cols == config.cols
        rows == config.rows
        gap == 10
        available_width == 800 - 20 * 2
        available_height == 700 - 120 - 20 - 50
        card_height == (available_height - gap * (rows - 1)) \div rows
        max_card_width == (card_height * 7) \div 10
        card_width == Min((available_width - gap * (cols - 1)) \div cols,
                          max_card_width)
        grid_width == card_width * cols + gap * (cols - 1)
        grid_height == card_height * rows + gap * (rows - 1)
        start_x == (800 - grid_width) \div 2
        start_y == 120 + (available_height - grid_height) \div 2
    IN  [m EXCEPT !.difficulty = difficulty_key,
                  !.matched_count = 0,
                  !.attempts = 0,
                  !.flipped = <<>>,
                  !.disabled = FALSE,
                  !.cards = [i \in 1..Len(deck) |->
                                [rank |-> deck[i][1], suit |-> deck[i][2],
                                 pair_id |-> deck[i][3],
                                 x |-> start_x + ((i - 1) % cols) * (card_width + gap),
                                 y |-> start_y + ((i - 1) \div cols) * (card_height + gap),
                                 width |-> card_width, height |-> card_height,
                                 flipped |-> FALSE, matched |-> FALSE]],
                  !.state = "playing",
                  !.buttons = <<>>]

\* MemoryGame.start_game; rnd holds the draws of its two shuffles.
start_game(m, difficulty_key, rnd) ==
    LET config == MemoryDifficulties[difficulty_key]
        selected == SubSeq(Shuffle(all_cards, rnd.first), 1, config.pairs)
        deck == Shuffle([i \in 1..(2 * config.pairs) |->
                            <<selected[(i + 1) \div 2][1],
                              selected[(i + 1) \div 2][2],
                              (i - 1) \div 2>>], rnd.second)
        cols == config.cols
        rows == config.rows
        gap == 10
        available_width == 800 - 20 * 2
        available_height == 700 - 120 - 20 - 50
        card_height == (available_height - gap * (rows - 1)) \div rows
        max_card_width == (card_height * 7) \div 10
        card_width == Min((available_width - gap * (cols - 1)) \div cols,
                          max_card_width)
        grid_width == card_width * cols + gap * (cols - 1)
        grid_height == card_height * rows + gap * (rows - 1)
        start_x == (800 - grid_width) \div 2
        start_y == 120 + (available_height - grid_height) \div 2
    IN  [m EXCEPT !.difficulty = difficulty_key,
                  !.matched_count = 0,
                  !.attempts = 0,
                  !.flipped = <<>>,
                  !.disabled = FALSE,
                  !.cards = [i \in 1..Len(deck) |->
                                [rank |-> deck[i][1], suit |-> deck[i][2],
                                 pair_id |-> deck[i][3],
                                 x |-> start_x + ((i - 1) % cols) * (card_width + gap),
                                 y |-> start_y + ((i - 1) \div cols) * (card_height + gap),
                                 width |-> card_width, height |-> card_height,
                                 flipped |-> FALSE, matched |-> FALSE]],
                  !.state = "playing",
                  !.buttons = <<>>]

\* A variant of handle_click that does not look at the disabled flag.
handle_click_while_disabled(m, pos, rnd) ==
    LET collidepoint(r) == /\ r.x <= pos[1] /\ pos[1] < r.x + r.width
                           /\ r.y <= pos[2] /\ pos[2] < r.y + r.height
        contains_point(c) == /\ c.x <= pos[1] /\ pos[1] <= c.x + c.width
                             /\ c.y <= pos[2] /\ pos[2] <= c.y + c.height
        clicked == {i \in 1..Len(m.buttons) : collidepoint(m.buttons[i])}
        btn == m.buttons[CHOOSE j \in clicked : \A k \in clicked : j <= k]
        hit == {i \in 1..Len(m.cards) :
                   contains_point(m.cards[i]) /\ ~m.cards[i].flipped /\ ~m.cards[i].matched}
        i == CHOOSE j \in hit : \A k \in hit : j <= k
        both == Append(m.flipped, i)
    IN  IF m.state = "menu"
        THEN IF clicked # {} THEN start_game(m, btn.tag, rnd) ELSE m
        ELSE IF m.state = "playing"
        THEN IF collidepoint([x |-> 20, y |-> 15, width |-> 80, height |-> 30])
             THEN [m EXCEPT !.state = "menu", !.buttons = Buttons("menu")]
             ELSE IF hit = {} THEN m
             ELSE IF Len(both) = 2
             THEN [m EXCEPT !.cards[i].flipped = TRUE,
                            !.flipped = both,
                            !.attempts = m.attempts + 1,
                            !.disabled = TRUE,
                            !.disable_until =
                                IF m.cards[both[1]].pair_id = m.cards[both[2]].pair_id
                                THEN 5 ELSE 9]
             ELSE [m EXCEPT !.cards[i].flipped = TRUE, !.flipped = both]
        ELSE IF m.state = "victory" /\ clicked # {}
        THEN IF btn.tag = "play_again" THEN start_game(m, m.difficulty, rnd)
             ELSE [m EXCEPT !.state = "menu", !.buttons = Buttons("menu")]
        ELSE m

\* MemoryGame.handle_click; the indices of self.flipped count from 1 here.
handle_click(m, pos, rnd) ==
    LET collidepoint(r) == /\ r.x <= pos[1] /\ pos[1] < r.x + r.width
                           /\ r.y <= pos[2] /\ pos[2] < r.y + r.height
        contains_point(c) == /\ c.x <= pos[1] /\ pos[1] <= c.x + c.width
                             /\ c.y <= pos[2] /\ pos[2] <= c.y + c.height
        clicked == {i \in 1..Len(m.buttons) : collidepoint(m.buttons[i])}
        btn == m.buttons[CHOOSE j \in clicked : \A k \in clicked : j <= k]
        hit == {i \in 1..Len(m.cards) :
                   contains_point(m.cards[i]) /\ ~m.cards[i].flipped /\ ~m.cards[i].matched}
        i == CHOOSE j \in hit : \A k \in hit : j <= k
        both == Append(m.flipped, i)
    IN  IF m.state = "menu"
        THEN IF clicked # {} THEN start_game(m, btn.tag, rnd) ELSE m
        ELSE IF m.state = "playing"
        THEN IF collidepoint([x |-> 20, y |-> 15, width |-> 80, height |-> 30])
             THEN [m EXCEPT !.state = "menu", !.buttons = Buttons("menu")]
             ELSE IF m.disabled \/ hit = {} THEN m
             ELSE IF Len(both) = 2
             THEN [m EXCEPT !.cards[i].flipped = TRUE,
                            !.flipped = both,
                            !.attempts = m.attempts + 1,
                            !.disabled = TRUE,
                            !.disable_until =
                                IF m.cards[both[1]].pair_id = m.cards[both[2]].pair_id
                                THEN 5 ELSE 9]
             ELSE [m EXCEPT !.cards[i].flipped = TRUE, !.flipped = both]
        ELSE IF m.state = "victory" /\ clicked # {}
        THEN IF btn.tag = "play_again" THEN start_game(m, m.difficulty, rnd)
             ELSE [m EXCEPT !.state = "menu", !.buttons = Buttons("menu")]
        ELSE m

\* A variant of update that marks the two flipped cards matched whether
\* their pair ids agree or not.
MemoryGame_update_matching_any(m) ==
    IF m.state = "playing" /\ m.disabled /\ m.disable_until <= 0 /\ Len(m.flipped) >= 2
    THEN LET after == [m EXCEPT !.cards[m.flipped[1]].matched = TRUE,
                                !.cards[m.flipped[2]].matched = TRUE,
                                !.matched_count = m.matched_count + 1,
                                !.flipped = <<>>,
                                !.disabled = FALSE]
         IN  IF after.matched_count = MemoryDifficulties[m.difficulty].pairs
             THEN [after EXCEPT !.state = "victory", !.buttons = Buttons("victory")]
             ELSE after
    ELSE m

\* MemoryGame.update.  self.flipped[1] of a list shorter than two raises an
\* IndexError, which ends the program: state "crashed".
MemoryGame_update(m) ==
    IF m.state = "playing" /\ m.disabled /\ m.disable_until <= 0
    THEN IF Len(m.flipped) < 2 THEN [m EXCEPT !.state = "crashed"]
         ELSE LET a == m.flipped[1]
                  b == m.flipped[2]
                  after ==
                      IF m.cards[a].pair_id = m.cards[b].pair_id
                      THEN [m EXCEPT !.cards[a].matched = TRUE,
                                     !.cards[b].matched = TRUE,
                                     !.matched_count = m.matched_count + 1,
                                     !.flipped = <<>>,
                                     !.disabled = FALSE]
                      ELSE [m EXCEPT !.cards[a].flipped = FALSE,
                                     !.cards[b].flipped = FALSE,
                                     !.flipped = <<>>,
                                     !.disabled = FALSE]
              IN  IF after.matched_count = MemoryDifficulties[m.difficulty].pairs
                  THEN [after EXCEPT !.state = "victory",
                                     !.buttons = Buttons("victory")]
                  ELSE after
    ELSE m

\* ------------------------------------------------------------------------
\* The state machine
\* ------------------------------------------------------------------------

VARIABLES
    game,       \* the Game object (with its Unicorn and its entity lists)
    keys_down,  \* pygame.key.get_pressed()[K_DOWN]
    pc,         \* Game.run: "handle_events", "update" or "exited"
    running,    \* Game.run: what handle_events returned
    file,       \* the content of HIGH_SCORE_FILE
    ticks,      \* gameplay updates run so far (bounds the exploration)
    spawned,    \* collectibles and power-ups spawned so far (bounds it too)
    outcome,    \* what the last update() did: see Outcome
    player,     \* a Unicorn object driven through its methods directly
    last_call,  \* the last method called on player
    ret,        \* the value the last player.jump() returned
    presses,    \* player.jump() calls made standing or airborne since player
                \* last touched the ground (counted up to MaxPresses)
    call,       \* a function of the program called on its own: its name and
                \* its arguments
    result,     \* what that call returned
    missed,         \* Phrase Hunter, Game.missed
    guesses,        \* Phrase Hunter, the letters of Game.guesses (the order
                    \* of the list is never read)
    active_phrase,  \* Phrase Hunter, Game.active_phrase.phrase
    at,             \* Phrase Hunter, where Game.start is: "loop" (the
                    \* while test), "get_guess", "play_again" or "exited"
    prompts,        \* Phrase Hunter, the prompts of the current get_guess
                    \* call (counted up to MaxPrompts)
    high_score,     \* guessing game, high_score: <<>> for None, <<n>> for n
    solution,       \* guessing game, solution
    attempts,       \* guessing game, attempts
    prompt,         \* guessing game, the input() start_game waits at:
                    \* "guess", "play_again", or "none" once play_again is
                    \* False and the program has ended
    typed,          \* guessing game, the lines typed at the guess prompt in
                    \* the current round: how many were an integer within
                    \* 1..100 and how many were not
    rounds,         \* guessing game, the completed rounds: the attempts
                    \* and the typed lines of each, and the high score
                    \* after it
    memory          \* memory game, the MemoryGame object

vars == <<game, keys_down, pc, running, file, ticks, spawned, outcome,
          player, last_call, ret, presses, call, result,
          missed, guesses, active_phrase, at, prompts,
          high_score, solution, attempts, prompt, typed, rounds, memory>>
gameVars == <<game, keys_down, pc, running, file, ticks, spawned, outcome>>
unicornVars == <<player, last_call, ret, presses>>
callVars == <<call, result>>
hunterVars == <<missed, guesses, active_phrase, at, prompts>>
guessingVars == <<high_score, solution, attempts, prompt, typed, rounds>>

\* Bounds of the exploration: the gameplay updates run, and the collectibles
\* and power-ups the random draws spawn on top of those the scripts below put
\* on the screen (each one multiplies the states by its tick, kind and
\* altitude).
MaxTicks == 4
MaxSpawns == 0

\* The obstacle draws update() can make in state g: a draw nothing reads is
\* fixed.
ObstacleDraws(g) ==
    IF g.obstacle_timer + 1 > ObstacleGap(g.difficulty, g.score)
    THEN {[NoDraws EXCEPT !.r_dragon = r, !.r_force = f, !.dragon_alt = a]
             : r \in {x \in RandomSamples : x < dragon_chance(g.score) /\ g.score > 300},
               f \in CoinFlips, a \in DragonAltitudes}
         \cup {[NoDraws EXCEPT !.r_dragon = r, !.r_crystal = c, !.variant = v]
             : r \in RandomSamples, c \in CoinFlips, v \in RockVariants}
    ELSE {NoDraws}

\* The collectible draws: one that spawns nothing, and the spawns.
CollectibleDraws ==
    {[r_collect |-> NoDraws.r_collect, collect_alt |-> NoDraws.collect_alt,
      r_star |-> NoDraws.r_star]}
    \cup {[r_collect |-> 0, collect_alt |-> a, r_star |-> s]
             : a \in CollectibleAltitudes, s \in CoinFlips}

\* The power-up draws: one that spawns nothing, and the draws below
\* powerup_spawn_chance, which spawn once the score allows it.
PowerUpDraws(g) ==
    {[r_power |-> NoDraws.r_power, power_alt |-> NoDraws.power_alt,
      power_type |-> NoDraws.power_type]}
    \cup {[r_power |-> 0, power_alt |-> a, power_type |-> t]
             : a \in IF g.score > 200 THEN PowerUpAltitudes ELSE {NoDraws.power_alt},
               t \in IF g.score > 200 THEN PowerUpTypes ELSE {NoDraws.power_type}}

\* The collectibles and power-ups update() spawns in state g on the draws rnd.
Spawns(g, rnd) ==
    (IF rnd.r_collect < spawn_chance THEN 1 ELSE 0)
    + (IF rnd.r_power < powerup_spawn_chance /\ g.score > 200 THEN 1 ELSE 0)

\* The draws of one update() in state g that spawn at most n collectibles and
\* power-ups.
Draws(g, n) ==
    IF ~Playing(g) THEN {NoDraws}
    ELSE {rnd \in {[o EXCEPT !.r_collect = c.r_collect, !.collect_alt = c.collect_alt,
                             !.r_star = c.r_star, !.r_power = w.r_power,
                             !.power_alt = w.power_alt, !.power_type = w.power_type]
                     : o \in ObstacleDraws(g), c \in CollectibleDraws,
                       w \in PowerUpDraws(g)}
             : Spawns(g, rnd) <= n}

\* How a call of _save_high_scores can end: see _save_high_scores.
WriteOutcomes == {"all", "none"}

\* What one update() did, read off the game before (g) and after (g2) it:
\*   "fatal"     the session ended in a collision,
\*   "absorbed"  the shield took a collision and the obstacle was removed,
\*   "expired"   the shield's countdown ran out,
\*   "shield", "magnet"  a power-up of that type was picked up.
\* The actions add "saved" when the high scores were written to the file.
Flag(name, cond) == IF cond THEN {name} ELSE {}

Outcome(g, g2) ==
    IF ~Playing(g) THEN {}
    ELSE LET added == IF g.obstacle_timer + 1 > ObstacleGap(g.difficulty, g.score)
                        THEN 1 ELSE 0
             moved == Len(AdvanceObstacles(g.obstacles, g.game_speed)) + added
         IN  Flag("fatal", g2.game_over)
             \cup Flag("absorbed", Len(g2.obstacles) < moved)
             \cup Flag("expired", g.unicorn.shield_active /\ g.unicorn.shield_timer <= 1)
             \cup {g2.powerups[i].type :
                      i \in {j \in 1..Len(g2.powerups) : g2.powerups[j].collected}}

\* ------------------------------------------------------------------------
\* Sessions in progress.  A collision, a power-up or the top speed is
\* hundreds of frames away from the constructor, so the exploration also
\* starts from states the program reaches by a scripted run of Game.run:
\* the frames are RunFrame's, the player is the rule AutoEvents and the
\* draws are fixed by the script.
\* ------------------------------------------------------------------------

\* The scripted player: press UP when standing and an obstacle comes near.
AutoEvents(g) ==
    IF /\ ~g.unicorn.is_jumping
       /\ \E i \in 1..Len(g.obstacles) :
             /\ g.obstacles[i].x + 5 * PX >= 160 * PX
             /\ g.obstacles[i].x + 5 * PX - 160 * PX < 14 * g.game_speed
    THEN << <<"KEYDOWN", "K_UP">> >>
    ELSE << >>

\* A shield power-up spawned at the player's height.
ShieldDraw == [NoDraws EXCEPT !.r_power = 0, !.power_alt = 84, !.power_type = "shield"]

\* Frame i of the script sc = [key, stop, plan, restart]: the first frame
\* presses the menu key; the player is scripted before frame sc.stop and idle
\* from it on; frame sc.restart presses SPACE (on the game-over screen: play
\* again); sc.plan maps the frames with a spawn to their draws.
ScriptFrame(st, i, sc) ==
    RunFrame(st,
             IF i = 1 THEN << <<"KEYDOWN", sc.key>> >>
             ELSE IF i = sc.restart THEN << <<"KEYDOWN", "K_SPACE">> >>
             ELSE IF i < sc.stop THEN AutoEvents(st.game) ELSE << >>,
             IF i \in DOMAIN sc.plan THEN sc.plan[i] ELSE NoDraws)

\* Frames lo..hi of the script, from st.  (Halving keeps the evaluation
\* shallow; the test on the score makes the first half a value before the
\* second half starts.)
RECURSIVE RunScript(_, _, _, _)
RunScript(st, lo, hi, sc) ==
    IF lo > hi THEN st
    ELSE IF lo = hi THEN ScriptFrame(st, lo, sc)
    ELSE LET mid == (lo + hi) \div 2
             half == RunScript(st, lo, mid, sc)
         IN  IF half.game.score >= 0 THEN RunScript(half, mid + 1, hi, sc) ELSE half

\* The scripts (all on HARD, whose physics constants are whole pixels) and
\* the number of frames each is run for.
Scripts ==
    LET none == [i \in {} |-> NoDraws]
        one == [i \in {330} |-> ShieldDraw]
        two == [i \in {330, 430} |-> ShieldDraw]
        star == [i \in {10} |-> [NoDraws EXCEPT !.r_collect = 0, !.r_star = 0]]
        pair == [i \in {10, 11} |->
                    [NoDraws EXCEPT !.r_collect = 0, !.collect_alt = 100,
                                    !.r_star = IF i = 10 THEN 0 ELSE RANDOM_UNITS - 1]]
        both == [i \in {400} |->
                    [NoDraws EXCEPT !.r_collect = 0, !.r_star = 0, !.r_power = 0,
                                    !.power_type = "magnet"]]
    IN  { [key |-> "K_3", stop |-> 0, plan |-> none, restart |-> 0, frames |-> 163],
          [key |-> "K_3", stop |-> 440, plan |-> one, restart |-> 0, frames |-> 459],
          [key |-> "K_3", stop |-> 440, plan |-> one, restart |-> 0, frames |-> 556],
          [key |-> "K_3", stop |-> 5000, plan |-> one, restart |-> 0, frames |-> 690],
          [key |-> "K_3", stop |-> 5000, plan |-> two, restart |-> 0, frames |-> 489],
          [key |-> "K_3", stop |-> 5000, plan |-> none, restart |-> 0, frames |-> 4999],
          [key |-> "K_3", stop |-> 0, plan |-> star, restart |-> 240, frames |-> 403],
          [key |-> "K_3", stop |-> 0, plan |-> pair, restart |-> 0, frames |-> 76],
          [key |-> "K_3", stop |-> 440, plan |-> both, restart |-> 0, frames |-> 459],
          [key |-> "K_3", stop |-> 5000, plan |-> one, restart |-> 0, frames |-> 390] }

Checkpoints ==
    { RunScript([game |-> NewGame(AbsentFile), keys_down |-> FALSE], 1, sc.frames, sc)
        : sc \in Scripts }

\* The state of the variables player, last_call, ret and presses while the
\* game runs: the stand-alone Unicorn is not touched.
IdlePlayer ==
    /\ player = NewUnicorn("NORMAL")
    /\ last_call = "__init__"
    /\ ret = FALSE
    /\ presses = 0

\* The state of the variables call and result while no function is called on
\* its own.
IdleCalls ==
    /\ call = [fn |-> "none"]
    /\ result = FALSE

\* The state of Phrase Hunter's variables while that program is not run.
IdleHunter ==
    /\ missed = 0
    /\ guesses = {" "}
    /\ active_phrase = <<>>
    /\ at = "idle"
    /\ prompts = 0

\* MemoryGame.__init__: the memory game before its main loop runs.
IdleMemory ==
    memory = [state |-> "menu", difficulty |-> "None", cards |-> <<>>,
              flipped |-> <<>>, matched_count |-> 0, attempts |-> 0,
              disabled |-> FALSE, disable_until |-> 0, buttons |-> Buttons("menu")]

\* The state of the guessing game's variables while that program is not run.
IdleGuessing ==
    /\ high_score = <<>>
    /\ solution = 1
    /\ attempts = 0
    /\ prompt = "idle"
    /\ typed = [valid |-> 0, invalid |-> 0]
    /\ rounds = <<>>

\* The state of the game's variables right after Game.__init__ with the
\* high-score file content f.  On an unreadable file open() raises an
\* exception that _load_high_scores does not catch: the program ends in the
\* constructor (pc = "crashed") and game only holds the defaults.
Constructed(f) ==
    /\ file = f
    /\ game = NewGame(IF f.kind = "unreadable" THEN AbsentFile ELSE f)
    /\ keys_down = FALSE
    /\ pc = IF f.kind = "unreadable" THEN "crashed" ELSE "handle_events"
    /\ running = TRUE
    /\ ticks = 0
    /\ spawned = 0
    /\ outcome = {}

\* A session in progress: the high-score file is absent until a session of
\* the script has set a high score, and holds the high scores from then on.
InProgress ==
    /\ \E st \in Checkpoints :
          /\ game = st.game
          /\ keys_down = st.keys_down
          /\ file = IF st.game.high_scores = ZeroScores THEN AbsentFile
                    ELSE _save_high_scores(st.game.high_scores, AbsentFile, "all")
    /\ pc = "handle_events"
    /\ running = TRUE
    /\ ticks = 0
    /\ spawned = 0
    /\ outcome = {}

\* The program starts: Game.__init__ with no high-score file yet.
Init == (Constructed(AbsentFile) \/ InProgress) /\ IdlePlayer /\ IdleCalls /\ IdleHunter /\ IdleGuessing /\ IdleMemory

\* The high-score files the program may find: none, one it cannot read,
\* texts that are not JSON (an empty file, a cut-off object, a number with a
\* leading zero), objects that are not a complete mapping, and complete
\* mappings, one of them with its keys in another order than json.dump's.
StoreContents ==
    {AbsentFile, [kind |-> "unreadable", text |-> <<>>]}
    \cup {[kind |-> "text", text |-> t]
             : t \in {<<>>, <<"{", "EASY", ":">>,
                      <<"{", "EASY", ":", "0", "5", "}">>,
                      <<"{", "}">>,
                      <<"{", "EASY", ":", "5", "}">>,
                      <<"{", "name", ":", "7", "}">>,
                      <<"{", "HARD", ":", "3", "0", ",", "NORMAL", ":", "2", "0",
                        ",", "EASY", ":", "1", "0", "}">>,
                      json_dump(ZeroScores),
                      json_dump([EASY |-> 10, NORMAL |-> 20, HARD |-> 30]),
                      json_dump([EASY |-> 0, NORMAL |-> 165, HARD |-> 12345])}}

\* The program starts on any of these files.
StoreInit == (\E f \in StoreContents : Constructed(f)) /\ IdlePlayer /\ IdleCalls /\ IdleHunter /\ IdleGuessing /\ IdleMemory

\* One KEYDOWN event of handle_events' loop (Q is the action Quit).
KeyDown(k) ==
    /\ pc = "handle_events"
    /\ k = "K_DOWN" => ~keys_down
    /\ game' = HandleKeyDown(game, k)
    /\ keys_down' = (keys_down \/ k = "K_DOWN")
    /\ UNCHANGED <<pc, running, file, ticks, spawned, outcome, unicornVars, callVars, hunterVars, guessingVars, memory>>

\* One KEYUP event of handle_events' loop: the DOWN key is released.
KeyUp ==
    /\ pc = "handle_events"
    /\ keys_down
    /\ game' = HandleKeyUp(game, "K_DOWN")
    /\ keys_down' = FALSE
    /\ UNCHANGED <<pc, running, file, ticks, spawned, outcome, unicornVars, callVars, hunterVars, guessingVars, memory>>

\* A QUIT event or the Q key: the high scores are saved and handle_events
\* returns False at once, skipping the key poll; run() still calls update().
Quit ==
    /\ pc = "handle_events"
    /\ \E written \in WriteOutcomes :
          /\ file' = _save_high_scores(game.high_scores, file, written)
          /\ outcome' = Flag("saved", written = "all")
    /\ running' = FALSE
    /\ pc' = "update"
    /\ UNCHANGED <<game, keys_down, ticks, spawned, unicornVars, callVars, hunterVars, guessingVars, memory>>

\* The event queue is empty: the continuous key poll that ends
\* handle_events, which returns True.
Poll ==
    /\ pc = "handle_events"
    /\ game' = PollKeys(game, keys_down)
    /\ pc' = "update"
    /\ UNCHANGED <<keys_down, running, file, ticks, spawned, outcome, unicornVars, callVars, hunterVars, guessingVars, memory>>

\* update() and draw() as run() calls them; a new high score is saved by
\* update().  Outside the menu draw() calls draw_ui(), which looks up the
\* high score of the difficulty: a KeyError ends the program.  run() then
\* loops while running.
Update ==
    /\ pc = "update"
    /\ Playing(game) => ticks < MaxTicks
    /\ \E rnd \in Draws(game, MaxSpawns - spawned) :
          /\ game' = Game_update(game, keys_down, rnd)
          /\ spawned' = IF Playing(game) THEN spawned + Spawns(game, rnd) ELSE spawned
          /\ \E written \in IF game'.high_scores # game.high_scores
                             THEN WriteOutcomes ELSE {"unsaved"} :
                /\ file' = IF written = "unsaved" THEN file
                           ELSE _save_high_scores(game'.high_scores, file, written)
                /\ outcome' = Outcome(game, game') \cup Flag("saved", written = "all")
    /\ ticks' = IF Playing(game) THEN ticks + 1 ELSE ticks
    /\ pc' = IF ~game'.show_menu /\ game'.difficulty \notin DOMAIN game'.high_scores
             THEN "crashed"
             ELSE IF running THEN "handle_events" ELSE "exited"
    /\ UNCHANGED <<keys_down, running, unicornVars, callVars, hunterVars, guessingVars, memory>>

Next ==
    \/ \E k \in Keys : KeyDown(k)
    \/ KeyUp
    \/ Quit
    \/ Poll
    \/ Update

Spec == Init /\ [][Next]_vars

\* The same program, started on any high-score file.
SpecStore == StoreInit /\ [][Next]_vars

\* ------------------------------------------------------------------------
\* The Unicorn object on its own: its methods called in any order, as
\* handle_events and update call them (jump, duck, stand_up, update,
\* start_death_animation), on a player of any difficulty.
\* ------------------------------------------------------------------------

\* The presses counted (one more than max_jumps tells a rejected press) and
\* the updates explored of a death animation.
MaxPresses == 3
MaxDyingUpdates == 2

UnicornInit ==
    /\ Constructed(AbsentFile)
    /\ \E d \in DifficultyNames : player = NewUnicorn(d)
    /\ last_call = "__init__"
    /\ ret = FALSE
    /\ presses = 0
    /\ IdleCalls
    /\ IdleHunter /\ IdleGuessing /\ IdleMemory

\* player.jump()
CallJump ==
    /\ player' = jump(player)
    /\ ret' = jump_returns(player)
    /\ last_call' = "jump"
    /\ presses' = IF player.is_dying \/ player.is_ducking THEN presses
                  ELSE Min(presses + 1, MaxPresses)
    /\ UNCHANGED <<gameVars, callVars, hunterVars, guessingVars, memory>>

\* player.duck()
CallDuck ==
    /\ player' = duck(player)
    /\ last_call' = "duck"
    /\ UNCHANGED <<ret, presses, gameVars, callVars, hunterVars, guessingVars, memory>>

\* player.stand_up()
CallStandUp ==
    /\ player' = stand_up(player)
    /\ last_call' = "stand_up"
    /\ UNCHANGED <<ret, presses, gameVars, callVars, hunterVars, guessingVars, memory>>

\* player.start_death_animation(): Game.update calls it on a live player.
CallStartDeath ==
    /\ ~player.is_dying
    /\ player' = start_death_animation(player)
    /\ last_call' = "start_death_animation"
    /\ UNCHANGED <<ret, presses, gameVars, callVars, hunterVars, guessingVars, memory>>

\* player.update(keys_pressed): Game.update calls it while the player lives
\* and while the death animation runs.
CallUpdate(down) ==
    /\ player.is_dying =>
          player.death_timer > death_animation_duration - MaxDyingUpdates
    /\ player' = Unicorn_update(player, down)
    /\ last_call' = "update"
    /\ presses' = IF ~player.is_dying /\ player'.y >= GroundY(player'.height)
                  THEN 0 ELSE presses
    /\ UNCHANGED <<ret, gameVars, callVars, hunterVars, guessingVars, memory>>

UnicornNext ==
    \/ CallJump
    \/ CallDuck
    \/ CallStandUp
    \/ CallStartDeath
    \/ \E down \in BOOLEAN : CallUpdate(down)

SpecUnicorn == UnicornInit /\ [][UnicornNext]_vars

\* ------------------------------------------------------------------------
\* Phrase Hunter (src/phrase-hunter): Game.start, Game.get_guess and Phrase.
\* A string is a sequence of characters, a character a token: the ASCII
\* letters, "e_acute" and "E_ACUTE" for a letter outside ASCII and its capital,
\* a digit, a symbol, and the blanks " " and "TAB".
\* ------------------------------------------------------------------------

\* Game.__init__: the phrases (Phrase.__init__ lowercases them).
phrases ==
    { <<"h", "e", "l", "l", "o", " ", "w", "o", "r", "l", "d">>,
      <<"p", "y", "t", "h", "o", "n", " ", "i", "s", " ", "f", "u",
        "n">>,
      <<"p", "r", "a", "c", "t", "i", "c", "e", " ", "m", "a", "k", "e",
        "s", " ", "p", "e", "r", "f", "e", "c", "t">>,
      <<"k", "e", "e", "p", " ", "i", "t", " ", "s", "i", "m", "p", "l",
        "e">>,
      <<"n", "e", "v", "e", "r", " ", "g", "i", "v", "e", " ", "u",
        "p">> }

\* The characters c with c.isalpha() and c.islower().
LowercaseLetters ==
    {"a", "b", "c", "d", "e", "f", "g", "h", "i", "j", "k", "l", "m",
        "n", "o", "p", "q", "r", "s", "t", "u", "v", "w", "x", "y", "z",
        "e_acute"}

\* A variant of get_guess that does not look at the letters already guessed.
get_guess_again(gs, lines) ==
    LET Lower(c) == CASE c = "A" -> "a" [] c = "B" -> "b"
                      [] c = "E_ACUTE" -> "e_acute" [] OTHER -> c
        RECURSIVE Strip(_)
        Strip(t) == IF t = <<>> THEN t
                    ELSE IF Head(t) \in {" ", "TAB"} THEN Strip(Tail(t))
                    ELSE IF t[Len(t)] \in {" ", "TAB"} THEN Strip(SubSeq(t, 1, Len(t) - 1))
                    ELSE t
        RECURSIVE Ask(_, _)
        Ask(ls, n) ==
            IF ls = <<>> THEN [returned |-> FALSE, guess |-> "", prompts |-> n]
            ELSE LET guess == Strip(MapSeq(Head(ls), Lower))
                 IN  IF Len(guess) # 1 THEN Ask(Tail(ls), n + 1)
                     ELSE IF guess[1] \notin LowercaseLetters THEN Ask(Tail(ls), n + 1)
                     ELSE [returned |-> TRUE, guess |-> guess[1], prompts |-> n]
    IN  Ask(lines, 1)

\* Game.get_guess with the letters gs guessed so far, on the lines the user
\* types at its prompts: the letter it returns and the prompts it issued, or
\* returned = FALSE when it is still prompting after the last line.  The
\* line is lowercased, then stripped; isalpha() holds after lower() for the
\* lowercase letters only.
get_guess(gs, lines) ==
    LET Lower(c) == CASE c = "A" -> "a" [] c = "B" -> "b"
                      [] c = "E_ACUTE" -> "e_acute" [] OTHER -> c
        RECURSIVE Strip(_)
        Strip(t) == IF t = <<>> THEN t
                    ELSE IF Head(t) \in {" ", "TAB"} THEN Strip(Tail(t))
                    ELSE IF t[Len(t)] \in {" ", "TAB"} THEN Strip(SubSeq(t, 1, Len(t) - 1))
                    ELSE t
        RECURSIVE Ask(_, _)
        Ask(ls, n) ==
            IF ls = <<>> THEN [returned |-> FALSE, guess |-> "", prompts |-> n]
            ELSE LET guess == Strip(MapSeq(Head(ls), Lower))
                 IN  IF Len(guess) # 1 THEN Ask(Tail(ls), n + 1)
                     ELSE IF guess[1] \notin LowercaseLetters THEN Ask(Tail(ls), n + 1)
                     ELSE IF guess[1] \in gs THEN Ask(Tail(ls), n + 1)
                     ELSE [returned |-> TRUE, guess |-> guess[1], prompts |-> n]
    IN  Ask(lines, 1)

\* A variant of Phrase.check_guess that finds every letter in the phrase.
check_guess_always(phrase, guess) == TRUE

\* Phrase.check_guess (a guess is one lowercase letter)
check_guess(phrase, guess) == \E i \in 1..Len(phrase) : phrase[i] = guess

\* Phrase.check_complete
check_complete(phrase, gs) == \A i \in 1..Len(phrase) : phrase[i] \in gs

\* A variant of game_over that reports a loss only above five misses.
game_over_above_five(n) == IF n > 5 THEN "lost" ELSE "won"

\* Game.game_over with n = self.missed: the outcome its message reports.
game_over(n) == IF n >= 5 THEN "lost" ELSE "won"

\* The prompts counted in one get_guess call, and the longest line typed at
\* a prompt of a get_guess called on its own.
MaxPrompts == 2
MaxLineLen == 3

\* The lines typed during a round: every letter of the phrase, the five
\* letters that are in no phrase, a capital, a padded letter, and lines
\* that are no letter.
HunterLines(phrase) ==
    {<<c>> : c \in {phrase[i] : i \in 1..Len(phrase)} \ {" "}}
    \cup {<<c>> : c \in {"b", "j", "q", "x", "z"}}
    \cup {<<"B">>, <<" ", "z", "TAB">>, <<>>, <<"1">>, <<"x", "z">>}

\* app.py: Game() and game.start() up to the first test of the while loop.
HunterInit ==
    /\ Constructed(AbsentFile)
    /\ IdlePlayer
    /\ IdleCalls
    /\ IdleGuessing
    /\ IdleMemory
    /\ missed = 0
    /\ active_phrase \in phrases
    /\ guesses = {" "}
    /\ at = "loop"
    /\ prompts = 0

\* Game.start, the test of the while loop: into the body, which prints the
\* phrase and calls get_guess, or on to game_over() and play_again().
LoopTest ==
    /\ at = "loop"
    /\ at' = IF missed < 5 /\ ~check_complete(active_phrase, guesses)
             THEN "get_guess" ELSE "play_again"
    /\ prompts' = IF at' = "get_guess" THEN 1 ELSE 0
    /\ UNCHANGED <<missed, guesses, active_phrase, gameVars, unicornVars, callVars, guessingVars, memory>>

\* The user answers a prompt of get_guess: a rejected line is prompted for
\* again; an accepted one is returned, appended to guesses and checked.
EnterLine ==
    /\ at = "get_guess"
    /\ \E line \in HunterLines(active_phrase) :
          LET got == get_guess(guesses, <<line>>)
          IN  IF got.returned
              THEN /\ guesses' = guesses \cup {got.guess}
                   /\ missed' = IF check_guess(active_phrase, got.guess)
                                THEN missed ELSE missed + 1
                   /\ at' = "loop"
                   /\ prompts' = 0
              ELSE /\ prompts' = IF prompts < MaxPrompts THEN prompts + 1 ELSE prompts
                   /\ UNCHANGED <<missed, guesses, at>>
    /\ UNCHANGED <<active_phrase, gameVars, unicornVars, callVars, guessingVars, memory>>

\* Game.play_again answered yes or no: reset() and start() again, or the end.
PlayAgain ==
    /\ at = "play_again"
    /\ \/ /\ missed' = 0
          /\ active_phrase' \in phrases
          /\ guesses' = {" "}
          /\ at' = "loop"
       \/ /\ at' = "exited"
          /\ UNCHANGED <<missed, active_phrase, guesses>>
    /\ UNCHANGED <<prompts, gameVars, unicornVars, callVars, guessingVars, memory>>

HunterNext ==
    \/ LoopTest
    \/ EnterLine
    \/ PlayAgain

SpecHunter == HunterInit /\ [][HunterNext]_vars

\* ------------------------------------------------------------------------
\* The number-guessing game (src/Guessing _game): start_game.  A line typed
\* at a prompt is a sequence of characters, a character a token: a digit,
\* a sign, "_", ".", a letter, " " or "TAB".
\* ------------------------------------------------------------------------

\* int() of a line: [ok |-> FALSE] for ValueError, else the value.  Blanks
\* around the number are dropped, one sign may lead, the digits may be
\* separated by single underscores, and leading zeros are allowed.
int(text) ==
    LET failed == [ok |-> FALSE, value |-> 0]
        RECURSIVE Strip(_)
        Strip(t) == IF t = <<>> THEN t
                    ELSE IF Head(t) \in {" ", "TAB"} THEN Strip(Tail(t))
                    ELSE IF t[Len(t)] \in {" ", "TAB"} THEN Strip(SubSeq(t, 1, Len(t) - 1))
                    ELSE t
        body == Strip(text)
        signed == body # <<>> /\ Head(body) \in {"+", "-"}
        digits == IF signed THEN Tail(body) ELSE body
        n == Len(digits)
        IsDigit(c) == \E k \in 1..10 : DigitTokens[k] = c
        RECURSIVE Number(_, _)
        Number(i, acc) ==
            IF i > n THEN acc
            ELSE IF digits[i] = "_" THEN Number(i + 1, acc)
            ELSE Number(i + 1,
                        10 * acc + (CHOOSE k \in 0..9 : DigitTokens[k + 1] = digits[i]))
    IN  IF /\ n > 0
           /\ IsDigit(digits[1])
           /\ IsDigit(digits[n])
           /\ \A i \in 1..n : IsDigit(digits[i]) \/ digits[i] = "_"
           /\ \A i \in 1..(n - 1) : ~(digits[i] = "_" /\ digits[i + 1] = "_")
        THEN [ok |-> TRUE,
              value |-> IF signed /\ Head(body) = "-" THEN 0 - Number(1, 0)
                        ELSE Number(1, 0)]
        ELSE failed

\* A variant of the high-score update that keeps the latest round's attempts.
new_high_score_latest(hs, n) == <<n>>

\* start_game, the update of high_score after a round won in n attempts.
new_high_score(hs, n) == IF hs = <<>> \/ n < hs[1] THEN <<n>> ELSE hs

\* The attempts counted in one round, the typed lines counted that are no
\* integer within 1..100, and the rounds played.
MaxAttempts == 3
MaxInvalid == 2
MaxRounds == 3

\* start_game up to the first guess prompt; random.randint(1, 100) draws
\* the lowest, a middle or the highest solution.
GuessingInit ==
    /\ Constructed(AbsentFile)
    /\ IdlePlayer
    /\ IdleCalls
    /\ IdleHunter
    /\ IdleMemory
    /\ high_score = <<>>
    /\ solution \in {1, 37, 100}
    /\ attempts = 0
    /\ prompt = "guess"
    /\ typed = [valid |-> 0, invalid |-> 0]
    /\ rounds = <<>>

\* The user answers the guess prompt.  Each line comes with what the user
\* typed: an integer within 1..100 or not.
EnterGuess ==
    /\ prompt = "guess"
    /\ attempts < MaxAttempts
    /\ \E line \in
          { [text |-> <<"1">>, valid |-> TRUE],
            [text |-> <<"3", "7">>, valid |-> TRUE],
            [text |-> <<"1", "0", "0">>, valid |-> TRUE],
            [text |-> <<" ", "3", "7", "TAB">>, valid |-> TRUE],
            [text |-> <<"+", "3", "7">>, valid |-> TRUE],
            [text |-> <<"0", "3", "7">>, valid |-> TRUE],
            [text |-> <<"1", "_", "0", "0">>, valid |-> TRUE],
            [text |-> <<"0">>, valid |-> FALSE],
            [text |-> <<"1", "0", "1">>, valid |-> FALSE],
            [text |-> <<"-", "3", "7">>, valid |-> FALSE],
            [text |-> <<"3", ".", "7">>, valid |-> FALSE],
            [text |-> <<"3", " ", "7">>, valid |-> FALSE],
            [text |-> <<"_", "3", "7">>, valid |-> FALSE],
            [text |-> <<"a">>, valid |-> FALSE],
            [text |-> <<"+">>, valid |-> FALSE],
            [text |-> <<>>, valid |-> FALSE] } :
          LET guess == int(line.text)
              now == IF line.valid
                     THEN [typed EXCEPT !.valid = @ + 1]
                     ELSE [typed EXCEPT !.invalid = Min(@ + 1, MaxInvalid)]
          IN  IF ~guess.ok \/ guess.value < 1 \/ guess.value > 100
              THEN /\ typed' = now
                   /\ UNCHANGED <<high_score, attempts, prompt, rounds>>
              ELSE /\ attempts' = attempts + 1
                   /\ IF guess.value = solution
                      THEN /\ high_score' = new_high_score(high_score, attempts')
                           /\ prompt' = "play_again"
                           /\ rounds' = Append(rounds,
                                  [attempts |-> attempts', typed |-> now,
                                   high_score |-> high_score'])
                           /\ typed' = [valid |-> 0, invalid |-> 0]
                      ELSE /\ typed' = now
                           /\ UNCHANGED <<high_score, prompt, rounds>>
    /\ UNCHANGED <<solution, gameVars, unicornVars, callVars, hunterVars, memory>>

\* The user answers "Would you like to play again? (Y/N)": the answer is
\* stripped and uppercased, and only "Y" starts another round.
AnswerPlayAgain ==
    /\ prompt = "play_again"
    /\ \E answer \in {<<"Y">>, <<"y">>, <<" ", "y", " ">>, <<"N">>, <<>>,
                      <<"y", "e", "s">>} :
          LET Upper(c) == IF c = "y" THEN "Y" ELSE IF c = "e" THEN "E"
                          ELSE IF c = "s" THEN "S" ELSE c
              RECURSIVE Strip(_)
              Strip(t) == IF t = <<>> THEN t
                          ELSE IF Head(t) = " " THEN Strip(Tail(t))
                          ELSE IF t[Len(t)] = " " THEN Strip(SubSeq(t, 1, Len(t) - 1))
                          ELSE t
              play_again_prompt == MapSeq(Strip(answer), Upper)
          IN  IF play_again_prompt # <<"Y">>
              THEN /\ prompt' = "none"
                   /\ UNCHANGED <<solution, attempts>>
              ELSE /\ Len(rounds) < MaxRounds
                   /\ prompt' = "guess"
                   /\ solution' \in {1, 37, 100}
                   /\ attempts' = 0
    /\ UNCHANGED <<high_score, typed, rounds, gameVars, unicornVars, callVars, hunterVars, memory>>

GuessingNext ==
    \/ EnterGuess
    \/ AnswerPlayAgain

SpecGuessing == GuessingInit /\ [][GuessingNext]_vars

\* ------------------------------------------------------------------------
\* The roster tool (src/Constants/app.py): balance_teams.  A player is a
\* record with a name and the experience flag that clean_data computes; a
\* roster dictionary is a function from the team names to lists of players.
\* ------------------------------------------------------------------------

\* A variant of balance_teams that deals the players out in turn, one team
\* after the other, so that none is left over.
balance_teams_in_turn(players, teams) ==
    LET Experienced(p) == p.experience
        Inexperienced(p) == ~p.experience
        experienced == SelectSeq(players, Experienced)
        inexperienced == SelectSeq(players, Inexperienced)
        RECURSIVE Dealt(_, _, _)
        Dealt(list, t, k) ==
            IF k > Len(list) THEN <<>>
            ELSE (IF teams[((k - 1) % Len(teams)) + 1] = t THEN <<list[k]>> ELSE <<>>)
                 \o Dealt(list, t, k + 1)
    IN  [t \in {teams[i] : i \in 1..Len(teams)} |->
            Dealt(experienced, t, 1) \o Dealt(inexperienced, t, 1)]

\* balance_teams: the dictionary it returns.  A team named more than once
\* in teams has one roster, which every one of its positions extends.
balance_teams(players, teams) ==
    LET Experienced(p) == p.experience
        Inexperienced(p) == ~p.experience
        experienced == SelectSeq(players, Experienced)
        inexperienced == SelectSeq(players, Inexperienced)
        exp_per_team == Len(experienced) \div Len(teams)
        inexp_per_team == Len(inexperienced) \div Len(teams)
        \* list[i * per_team : i * per_team + per_team], i counted from 0
        Slice(list, per_team, i) ==
            SubSeq(list, (i * per_team) + 1, (i * per_team) + per_team)
        RECURSIVE Extended(_, _, _, _)
        Extended(list, per_team, t, k) ==
            IF k > Len(teams) THEN <<>>
            ELSE (IF teams[k] = t THEN Slice(list, per_team, k - 1) ELSE <<>>)
                 \o Extended(list, per_team, t, k + 1)
    IN  [t \in {teams[i] : i \in 1..Len(teams)} |->
            Extended(experienced, exp_per_team, t, 1)
            \o Extended(inexperienced, inexp_per_team, t, 1)]

\* ------------------------------------------------------------------------
\* Memory Match, main(): every frame handles the mouse clicks of the event
\* queue and then calls game.update(); the clock runs between the calls.
\* ------------------------------------------------------------------------

\* The cards of the grid a click may land on (the first ones, row by row),
\* and the attempts after which the exploration stops.
MaxClickedCards == 12
MaxTries == 6

\* main() up to its loop.
MemoryInit ==
    /\ Constructed(AbsentFile)
    /\ IdlePlayer
    /\ IdleCalls
    /\ IdleHunter /\ IdleGuessing /\ IdleMemory

\* A MOUSEBUTTONDOWN event of the left button: on the centre of a button or
\* of a card, on the lower right corner of the first card, on the Back
\* button or on the background.  A click that starts a game draws the first
\* cards of the pack and deals them seven apart.
MouseButtonDown ==
    /\ memory.state # "crashed"
    /\ memory.attempts < MaxTries
    /\ LET centre(r) == <<r.x + r.width \div 2, r.y + r.height \div 2>>
           n == Min(Len(memory.cards), MaxClickedCards)
       IN  \E pos \in {<<60, 30>>, <<5, 5>>}
                      \cup {centre(memory.buttons[i]) : i \in 1..Len(memory.buttons)}
                      \cup {centre(memory.cards[i]) : i \in 1..n}
                      \cup {<<memory.cards[i].x + memory.cards[i].width,
                              memory.cards[i].y + memory.cards[i].height>>
                               : i \in 1..Min(n, 1)} :
              memory' = handle_click(memory, pos,
                                     [first |-> [cut |-> 0, stride |-> 1],
                                      second |-> [cut |-> 0, stride |-> 7]])
    /\ UNCHANGED <<gameVars, unicornVars, callVars, hunterVars, guessingVars>>

\* game.update()
MemoryUpdate ==
    /\ memory.state # "crashed"
    /\ memory' = MemoryGame_update(memory)
    /\ UNCHANGED <<gameVars, unicornVars, callVars, hunterVars, guessingVars>>

\* Half a second passes on the clock of time.time().
TimePasses ==
    /\ memory.disable_until > 0
    /\ memory' = [memory EXCEPT !.disable_until = Max(0, memory.disable_until - 5)]
    /\ UNCHANGED <<gameVars, unicornVars, callVars, hunterVars, guessingVars>>

MemoryNext ==
    \/ MouseButtonDown
    \/ MemoryUpdate
    \/ TimePasses

SpecMemory == MemoryInit /\ [][MemoryNext]_vars

\* ------------------------------------------------------------------------
\* Functions of the programs called on their own, on arguments drawn from
\* bounded sets: positions and scores that a session reaches only after
\* many frames, and the lines a user may type.  The functions are pure, so every behaviour is one call.
\* ------------------------------------------------------------------------

\* How far left of the screen's edge (in pixels) the obstacles drawn lie.
MaxEdgeDepth == 70

\* Obstacles whose left edge is at or left of the screen's edge, on a whole
\* pixel or just left of one.
EdgeObstacles ==
    {[o EXCEPT !.x = -(k * PX) - e]
        : o \in {NewRock(0, v) : v \in RockVariants}
                \cup {NewDragon(0, FALSE, a) : a \in DragonAltitudes},
          k \in 0..MaxEdgeDepth, e \in {0, 1}}

\* The scores drawn: the multiples of 150 and their predecessors, and the
\* scores around the thresholds of the spawners.
MaxScoreSteps == 54
ScoreSamples ==
    {s \in {150 * k - e : k \in 0..MaxScoreSteps, e \in {0, 1}} : s >= 0}
    \cup {200, 201, 300, 301, 1399, 1400, 1401, 5000}

\* The obstacle timers drawn.
MaxTimer == 101

\* Sessions with one rock in the middle of the screen, at every drawn score
\* and obstacle timer.
TimerGames ==
    {[StartSession(NewGame(AbsentFile), d) EXCEPT
          !.score = s, !.game_speed = SpeedFor(d, s), !.obstacle_timer = t,
          !.obstacles = <<NewRock(500 * PX, "small")>>]
        : d \in DifficultyNames, s \in ScoreSamples, t \in 0..MaxTimer}

\* How far from the player's centre (in tens of pixels, each way) the coins
\* drawn lie.
MaxReach == 16

\* Sessions on HARD at score 400 with one coin around the player, who stands
\* or ducks on the ground with the magnet off, in its last tick or just
\* picked up.  The coins are on whole pixels and 0.37 px right of them.
MagnetGames ==
    {[StartSession(NewGame(AbsentFile), "HARD") EXCEPT
          !.score = 400, !.game_speed = SpeedFor("HARD", 400),
          !.unicorn = [u EXCEPT !.magnet_active = (m > 0), !.magnet_timer = m],
          !.collectibles = <<NewCoin((135 + 10 * i) * PX + e,
                                     u.y + (u.height \div 2 + 10 * j) * PX)>>]
        : u \in {NewUnicorn("HARD"), duck(NewUnicorn("HARD"))},
          m \in {0, 1, magnet_duration},
          i \in (-MaxReach)..MaxReach, j \in (-MaxReach)..MaxReach,
          e \in {0, 370 * (PX \div 1000)}}

\* Sessions on HARD at score 400 with an obstacle, a collectible and a
\* power-up about to leave the screen: after this tick's move the right edge
\* of each is at x = 0, or 1/PX px left or right of it.
EdgeGames ==
    LET g == [StartSession(NewGame(AbsentFile), "HARD") EXCEPT
                  !.score = 400, !.game_speed = SpeedFor("HARD", 400)]
        At(e, step, k) == [e EXCEPT !.x = step + k - e.width * PX]
    IN  {[g EXCEPT
              !.obstacles = <<At(o, o.x - Obstacle_update(o, g.game_speed).x, ko)>>,
              !.collectibles = <<At(c, g.game_speed, kc)>>,
              !.powerups = <<At(p, g.game_speed, kp)>>]
            : o \in {NewRock(0, "small"), NewDragon(0, FALSE, 60)},
              c \in {spawn_collectible(NoDraws),
                     spawn_collectible([NoDraws EXCEPT !.r_star = 0])},
              p \in {spawn_powerup(NoDraws)},
              ko \in {-1, 0, 1}, kc \in {-1, 0, 1}, kp \in {-1, 0, 1}}

CallsInit ==
    /\ Constructed(AbsentFile)
    /\ IdlePlayer
    /\ IdleCalls
    /\ IdleHunter /\ IdleGuessing /\ IdleMemory

\* obstacle.is_off_screen()
CallIsOffScreen ==
    /\ call.fn = "none"
    /\ \E o \in EdgeObstacles :
          /\ call' = [fn |-> "is_off_screen", obstacle |-> o]
          /\ result' = is_off_screen(o)
    /\ UNCHANGED <<gameVars, unicornVars, hunterVars, guessingVars, memory>>

\* Game.update, "Update obstacles", on a list of two: an obstacle at the
\* screen's edge and one just spawned, at the lowest or the highest scroll
\* speed of a difficulty.
CallUpdateObstacles ==
    /\ call.fn = "none"
    /\ \E o \in EdgeObstacles, d \in DifficultyNames :
       \E speed \in {DIFFICULTIES[d].initial_speed, DIFFICULTIES[d].max_speed} :
          LET obs == <<o, NewRock((SCREEN_WIDTH + 50) * PX, "small")>>
          IN  /\ call' = [fn |-> "update_obstacles", obstacles |-> obs,
                          game_speed |-> speed]
              /\ result' = AdvanceObstacles(obs, speed)
    /\ UNCHANGED <<gameVars, unicornVars, hunterVars, guessingVars, memory>>

\* game.update() in a Playing session, with draws that spawn no collectible:
\* the power-up draw is at or above powerup_spawn_chance, or below it with
\* either type; DOWN is held exactly when the player ducks.
CallGameUpdate ==
    /\ call.fn = "none"
    /\ \E g \in TimerGames \cup MagnetGames,
          rnd \in {NoDraws,
                   [NoDraws EXCEPT !.r_power = powerup_spawn_chance],
                   [NoDraws EXCEPT !.r_power = powerup_spawn_chance - 1,
                                   !.power_alt = 140, !.power_type = "magnet"],
                   [NoDraws EXCEPT !.r_power = 0]} :
          /\ call' = [fn |-> "update", game |-> g, rnd |-> rnd]
          /\ result' = Game_update(g, g.unicorn.is_ducking, rnd)
    /\ UNCHANGED <<gameVars, unicornVars, hunterVars, guessingVars, memory>>

\* game.update() in a Playing session whose entities are about to leave the
\* screen, with draws that spawn nothing or a power-up.
CallGameUpdateAtEdge ==
    /\ call.fn = "none"
    /\ \E g \in EdgeGames, rnd \in {NoDraws, [NoDraws EXCEPT !.r_power = 0]} :
          /\ call' = [fn |-> "update_at_edge", game |-> g, rnd |-> rnd]
          /\ result' = Game_update(g, g.unicorn.is_ducking, rnd)
    /\ UNCHANGED <<gameVars, unicornVars, hunterVars, guessingVars, memory>>

\* game.spawn_obstacle() at a drawn score, on draws at both sides of the
\* dragon chance.
CallSpawnObstacle ==
    /\ call.fn = "none"
    /\ \E score \in ScoreSamples, f \in CoinFlips, c \in CoinFlips :
       \E r \in {x \in {0, score - 1, score, max_dragon_chance - 1,
                        max_dragon_chance, RANDOM_UNITS - 1}
                    : x >= 0 /\ x < RANDOM_UNITS} :
          LET rnd == [NoDraws EXCEPT !.r_dragon = r, !.r_force = f, !.r_crystal = c]
          IN  /\ call' = [fn |-> "spawn_obstacle", score |-> score, rnd |-> rnd]
              /\ result' = spawn_obstacle(score, rnd)
    /\ UNCHANGED <<gameVars, unicornVars, hunterVars, guessingVars, memory>>

\* game.get_guess() called on its own, on a Game with one to three letters
\* guessed: the user types any line of up to MaxLineLen characters, and then
\* nothing more, the letter b or the letter a.  The call assigns to no
\* field of the Game.
CallGetGuess ==
    /\ call.fn = "none"
    /\ \E gs \in {{" "}, {" ", "a"}, {" ", "a", "e_acute"}},
          n \in 0..MaxLineLen,
          rest \in {<< >>, << <<"b">> >>, << <<"a">> >>} :
       \E first \in [1..n -> {"a", "b", "A", "e_acute", "E_ACUTE", "1", "!", " ", "TAB"}] :
          /\ call' = [fn |-> "get_guess", missed |-> 0, guesses |-> gs,
                      lines |-> <<first>> \o rest]
          /\ result' = [got |-> get_guess(gs, <<first>> \o rest),
                        missed |-> 0, guesses |-> gs]
    /\ UNCHANGED <<gameVars, unicornVars, hunterVars, guessingVars, memory>>

\* The players and the team positions of a balance_teams call.
MaxPlayers == 6
MaxTeams == 3

\* balance_teams called on its own: on up to MaxPlayers players, each
\* experienced or not, and on one to MaxTeams team names, which may repeat.
CallBalanceTeams ==
    /\ call.fn = "none"
    /\ \E n \in 0..MaxPlayers, k \in 1..MaxTeams :
       \E experience \in [1..n -> BOOLEAN],
          teams \in [1..k -> {"Panthers", "Bandits", "Warriors"}] :
          LET players == [i \in 1..n |-> [name |-> i, experience |-> experience[i]]]
          IN  /\ call' = [fn |-> "balance_teams", players |-> players, teams |-> teams]
              /\ result' = balance_teams(players, teams)
    /\ UNCHANGED <<gameVars, unicornVars, hunterVars, guessingVars, memory>>

\* The cuts of the shuffles a start_game call draws.
MaxCut == 3

\* game.start_game(difficulty_key) on a new MemoryGame, for every difficulty
\* and the shuffles of every cut up to MaxCut.
CallStartGame ==
    /\ call.fn = "none"
    /\ \E key \in DOMAIN MemoryDifficulties,
          c1 \in 0..MaxCut, c2 \in 0..MaxCut, s1 \in {1, 7}, s2 \in {1, 7} :
          LET rnd == [first |-> [cut |-> c1, stride |-> s1],
                      second |-> [cut |-> c2, stride |-> s2]]
          IN  /\ call' = [fn |-> "start_game", difficulty_key |-> key, rnd |-> rnd]
              /\ result' = start_game(memory, key, rnd)
    /\ UNCHANGED <<gameVars, unicornVars, hunterVars, guessingVars, memory>>

CallsNext ==
    \/ CallStartGame
    \/ CallBalanceTeams
    \/ CallIsOffScreen
    \/ CallUpdateObstacles
    \/ CallGameUpdate
    \/ CallGameUpdateAtEdge
    \/ CallSpawnObstacle
    \/ CallGetGuess

SpecCalls == CallsInit /\ [][CallsNext]_vars

\* ------------------------------------------------------------------------
\* Properties
\* ------------------------------------------------------------------------

\* C2: jump_count never exceeds max_jumps, whatever the sequence of jump,
\* duck, stand_up and update calls, several jump calls between two updates
\* included.
JumpCountBounded == player.jump_count <= max_jumps

\* C2 happens: a press made with both jumps used up was rejected.
JumpCountAtCap ==
    /\ last_call = "jump"
    /\ ~ret
    /\ ~player.is_dying
    /\ player.is_jumping
    /\ player.jump_count = max_jumps

\* C3: from a grounded player (jump_count 0), of the presses made neither
\* ducking nor dying before landing, the first two succeed (jump() returns
\* True, velocity_y becomes jump_strength and jump_count becomes 1, then 2)
\* and any further one is rejected (jump() returns False and the player is
\* unchanged).
DoubleJumpThenRejected ==
    [][(last_call' = "jump" /\ ~player.is_dying /\ ~player.is_ducking) =>
          IF presses < 2
          THEN /\ ret'
               /\ player'.velocity_y = DIFFICULTIES[player.difficulty].jump_strength
               /\ player'.jump_count = presses + 1
               /\ player.jump_count = presses
          ELSE /\ ~ret'
               /\ player' = player]_vars

\* C3 happens: the third press before landing was made and rejected.
ThirdPressRejected ==
    /\ last_call = "jump"
    /\ presses = 3
    /\ ~ret
    /\ player.jump_count = 2
    /\ player.y < GroundY(normal_height)

\* C6: jump() on a dying player returns False and changes nothing; on a
\* ducking player it returns False and only stands the player up
\* (is_ducking false, height 60, y the ground line of that height): velocity_y,
\* is_jumping and jump_count stay.
JumpRejectedDuckingOrDying ==
    [][last_call' = "jump" =>
          /\ player.is_dying => (~ret' /\ player' = player)
          /\ (~player.is_dying /\ player.is_ducking) =>
                /\ ~ret'
                /\ player' = [player EXCEPT !.is_ducking = FALSE,
                                            !.height = 60,
                                            !.y = GroundY(60)]]_vars

\* C6 happens: a press that was rejected although the player lives and has
\* both jumps left, that is a press made ducking, which stood the player up.
DuckingPressStoodUp ==
    /\ last_call = "jump"
    /\ ~ret
    /\ ~player.is_dying
    /\ player.jump_count = 0
    /\ ~player.is_ducking
    /\ player.height = normal_height

\* What the properties of Game.update read.  A step taken at pc = "update" is
\* one call of update(); it is a Playing tick when Playing(game) holds before.

\* The player as the collision checks of this update() see it.
Checked == Unicorn_update(game.unicorn, keys_down)

\* The obstacles live before this update(), moved and pruned by it.
Live == AdvanceObstacles(game.obstacles, game.game_speed)

\* The live obstacles that intersect the player's hit-box in this update().
Hitting ==
    {i \in 1..Len(Live) :
        colliderect(Unicorn_get_rect(Checked), Obstacle_get_rect(Live[i]))}

FirstHitting == CHOOSE i \in Hitting : \A j \in Hitting : i <= j

\* What draw() shows over the scene: the game-over screen.
GameOverShown(g) == g.game_over /\ ~g.unicorn.is_dying

\* C1: game_speed lies between initial_speed and max_speed of the active
\* difficulty in every state, whatever the frames and key events.
SpeedWithinBounds ==
    /\ DIFFICULTIES[game.difficulty].initial_speed <= game.game_speed
    /\ game.game_speed <= DIFFICULTIES[game.difficulty].max_speed

\* C1 happens: a session whose score has taken the speed formula past
\* max_speed runs at max_speed.
SpeedAtCap ==
    /\ ~game.show_menu
    /\ ticks > 0
    /\ game.game_speed = DIFFICULTIES[game.difficulty].max_speed
    /\ DIFFICULTIES[game.difficulty].initial_speed
         + game.score * DIFFICULTIES[game.difficulty].speed_increment
       > DIFFICULTIES[game.difficulty].max_speed

\* C4: in a Playing tick in which obstacles intersect the player with the
\* shield active, the first of them is removed from the list, the player does
\* not die, the game is not over, and the shield is off after the tick unless
\* a shield power-up was picked up in it; with the shield inactive an
\* intersecting obstacle is fatal.
ShieldNegatesOneCollision ==
    [][(pc = "update" /\ Playing(game) /\ Hitting # {}) =>
          IF Checked.shield_active
          THEN /\ ~game'.game_over
               /\ ~game'.unicorn.is_dying
               /\ SubSeq(game'.obstacles, 1, Len(Live) - 1) = RemoveAt(Live, FirstHitting)
               /\ Len(game'.obstacles) <= Len(Live)
               /\ game'.unicorn.shield_active => "shield" \in outcome'
          ELSE /\ game'.game_over
               /\ game'.unicorn.is_dying]_vars

\* C4 happens: the shield took a collision and the session goes on without it.
ShieldAbsorbedCollision ==
    /\ "absorbed" \in outcome
    /\ ~game.game_over
    /\ ~game.unicorn.is_dying
    /\ ~game.unicorn.shield_active

\* C5: an active shield has between 1 and shield_duration ticks left; a
\* Playing tick without a collision and without a shield pickup takes one
\* off and turns the shield off at 0, so it expires shield_duration Playing
\* ticks after its activation; a shield pickup sets the countdown to
\* shield_duration again; an update() that is not a Playing tick leaves it.
ShieldExpires ==
    /\ [](game.unicorn.shield_active =>
            (1 <= game.unicorn.shield_timer /\ game.unicorn.shield_timer <= shield_duration))
    /\ [][pc = "update" =>
            /\ (Playing(game) /\ "shield" \in outcome') =>
                  /\ game'.unicorn.shield_active
                  /\ game'.unicorn.shield_timer = shield_duration
            /\ (/\ Playing(game)
                /\ game.unicorn.shield_active
                /\ "shield" \notin outcome'
                /\ "absorbed" \notin outcome') =>
                  /\ game'.unicorn.shield_timer = game.unicorn.shield_timer - 1
                  /\ game'.unicorn.shield_active = (game'.unicorn.shield_timer > 0)
            /\ ~Playing(game) =>
                  /\ game'.unicorn.shield_active = game.unicorn.shield_active
                  /\ game'.unicorn.shield_timer = game.unicorn.shield_timer]_vars

\* C5 happens: the countdown of an unused shield ran out in the last tick.
ShieldTimedOut ==
    /\ outcome = {"expired"}
    /\ ~game.game_over
    /\ ~game.unicorn.shield_active
    /\ game.unicorn.shield_timer = 0

\* C7: a Playing tick in which an obstacle intersects the player without a
\* shield ends with game_over, is_dying and death_timer = 60; each update()
\* of the game-over screen state takes one off death_timer, so that
\* death_timer = 60 - (animation ticks run); at 0, after exactly 60 ticks,
\* is_dying is false and the game-over screen is shown.
DeathAnimationLasts60 ==
    /\ [](game.game_over =>
            /\ game.unicorn.death_timer = death_animation_duration
                                            - game.unicorn.death_rotation \div 15
            /\ game.unicorn.is_dying = (game.unicorn.death_timer > 0)
            /\ GameOverShown(game) = (game.unicorn.death_rotation = 15 * 60))
    /\ [][pc = "update" =>
            /\ (Playing(game) /\ Hitting # {} /\ ~Checked.shield_active) =>
                  /\ game'.game_over
                  /\ game'.unicorn.is_dying
                  /\ game'.unicorn.death_timer = 60
            /\ (game.game_over /\ ~game.show_menu /\ game.unicorn.is_dying) =>
                  /\ game'.unicorn.death_timer = game.unicorn.death_timer - 1
                  /\ game'.unicorn.death_rotation = game.unicorn.death_rotation + 15
                  /\ game'.game_over]_vars

\* C7 happens: the animation has run its 60 ticks and the game-over screen
\* is shown.
GameOverScreenReached ==
    /\ GameOverShown(game)
    /\ ~game.show_menu
    /\ game.unicorn.death_timer = 0
    /\ game.unicorn.death_rotation = 15 * 60

\* The gameplay state of a session.
Gameplay(g) ==
    <<g.unicorn, g.obstacles, g.collectibles, g.powerups, g.score,
      g.coins_collected, g.game_speed, g.obstacle_timer>>

\* C8: while the game is paused, no update() and no key event that leaves it
\* paused (any but P, R, M and quit) changes the player, the entity lists,
\* score, coins_collected, game_speed or obstacle_timer.
PausedFreezesGameplay ==
    [][(/\ game.paused /\ ~game.show_menu
        /\ game'.paused /\ ~game'.show_menu) =>
          Gameplay(game') = Gameplay(game)]_vars

\* C9: while game_over holds, an update() leaves score, coins_collected,
\* game_speed, obstacle_timer and the three entity lists as they are; of the
\* player only the death animation (position, rotation, death velocity and
\* death_timer) moves, and nothing moves once is_dying is false.
GameOverFreezes ==
    [][(pc = "update" /\ game.game_over) =>
          /\ game'.score = game.score
          /\ game'.coins_collected = game.coins_collected
          /\ game'.game_speed = game.game_speed
          /\ game'.obstacle_timer = game.obstacle_timer
          /\ game'.obstacles = game.obstacles
          /\ game'.collectibles = game.collectibles
          /\ game'.powerups = game.powerups
          /\ game'.game_over
          /\ [game'.unicorn EXCEPT !.x = 0, !.y = 0, !.death_rotation = 0,
                                   !.death_velocity_y = 0, !.death_timer = 0,
                                   !.is_dying = FALSE]
             = [game.unicorn EXCEPT !.x = 0, !.y = 0, !.death_rotation = 0,
                                    !.death_velocity_y = 0, !.death_timer = 0,
                                    !.is_dying = FALSE]
          /\ ~game.unicorn.is_dying => game'.unicorn = game.unicorn
          /\ game.unicorn.death_timer > 0 => game.unicorn.is_dying]_vars

\* C9 happens: game-over updates have run, with entities on the screen, and
\* the animation is under way.
DyingAnimationRunning ==
    /\ game.game_over
    /\ ~game.show_menu
    /\ game.unicorn.is_dying
    /\ game.unicorn.death_timer < death_animation_duration - 1
    /\ Len(game.obstacles) > 0

\* C10: after a Playing tick that did not end in game over, no obstacle left
\* in the list intersects the player's hit-box.
NoObstacleLeftIntersecting ==
    [][(pc = "update" /\ Playing(game) /\ ~game'.game_over) =>
          \A i \in 1..Len(game'.obstacles) :
              ~colliderect(Unicorn_get_rect(game'.unicorn),
                           Obstacle_get_rect(game'.obstacles[i]))]_vars

\* C10 happens: after a Playing tick the player is above an obstacle: their
\* boxes overlap sideways and the game goes on.
PlayerOverObstacle ==
    /\ pc = "handle_events"
    /\ ticks > 0
    /\ Playing(game)
    /\ \E i \in 1..Len(game.obstacles) :
          LET a == Unicorn_get_rect(game.unicorn)
              b == Obstacle_get_rect(game.obstacles[i])
          IN  a.x < b.x + b.w /\ a.x + a.w > b.x

\* The entities of the list es that carry the collected flag.
Collected(es) == {i \in 1..Len(es) : es[i].collected}

\* C11: at the end of every Playing tick the collectibles and powerups lists
\* hold no entity whose collected flag is true.
NoCollectedEntityListed ==
    [][(pc = "update" /\ Playing(game)) =>
          /\ Collected(game'.collectibles) = {}
          /\ Collected(game'.powerups) = {}]_vars

\* C12 as stated: an obstacle at x = -1 with width 30 is reported off-screen,
\* and the next tick's update removes it from the list.
OffScreenAtMinusOne ==
    /\ (call.fn = "is_off_screen" /\ call.obstacle.x = -PX
           /\ call.obstacle.width = 30) => result
    /\ (call.fn = "update_obstacles" /\ call.obstacles[1].x = -PX
           /\ call.obstacles[1].width = 30) => Len(result) = 1

\* C12, amended: is_off_screen() reports an obstacle exactly when its right
\* edge x + width is left of 0 (at x = -31 with width 30, not at x = -1), and
\* a tick's update keeps, in order, exactly the obstacles whose right edge
\* after the move is at 0 or beyond.
OffScreenWhenFullyLeft ==
    /\ call.fn = "is_off_screen" =>
          /\ result = (call.obstacle.x + call.obstacle.width * PX < 0)
          /\ (call.obstacle.x = -(31 * PX) /\ call.obstacle.width = 30) => result
          /\ (call.obstacle.x = -PX /\ call.obstacle.width = 30) => ~result
    /\ call.fn = "update_obstacles" =>
          LET moved == [i \in 1..2 |->
                           Obstacle_update(call.obstacles[i], call.game_speed)]
          IN  result = IF moved[1].x + moved[1].width * PX < 0
                       THEN <<moved[2]>> ELSE moved

\* C12 happens: an obstacle still partly on the screen leaves it in this tick
\* and is removed, the other one stays.
ObstacleLeftTheScreen ==
    /\ call.fn = "update_obstacles"
    /\ call.obstacles[1].x + call.obstacles[1].width * PX >= 0
    /\ Len(result) = 1

\* C16 as stated, the quotient score/150 taken exactly: the incremented timer
\* t exceeds max(min_obstacle_gap, 100 - score/150) when t > min_obstacle_gap
\* and 150 t > 15000 - score.
SpawnWhenTimerExceedsExactGap ==
    (call.fn = "update" /\ call.game.obstacles # <<>>) =>
        LET g == call.game
            t == g.obstacle_timer + 1
            due == /\ t > DIFFICULTIES[g.difficulty].min_obstacle_gap
                   /\ 150 * t > 15000 - g.score
        IN  IF due
            THEN result.obstacle_timer = 0 /\ Len(result.obstacles) = 2
            ELSE result.obstacle_timer = t /\ Len(result.obstacles) = 1

\* C16, amended: in a Playing tick the obstacle timer is incremented by one,
\* and an obstacle is spawned exactly when the incremented timer exceeds
\* max(min_obstacle_gap, 100 - floor(score / 150)); then the timer is reset
\* to 0 and exactly one obstacle joins the list (at the right of the screen),
\* otherwise none does.
SpawnWhenTimerExceedsGap ==
    (call.fn = "update" /\ call.game.obstacles # <<>>) =>
        LET g == call.game
            t == g.obstacle_timer + 1
            floor == (g.score - (g.score % 150)) \div 150
            gap == IF 100 - floor > DIFFICULTIES[g.difficulty].min_obstacle_gap
                   THEN 100 - floor
                   ELSE DIFFICULTIES[g.difficulty].min_obstacle_gap
        IN  IF t > gap
            THEN /\ result.obstacle_timer = 0
                 /\ Len(result.obstacles) = 2
                 /\ result.obstacles[1].x = g.obstacles[1].x - g.game_speed
                 /\ result.obstacles[2].x = (SCREEN_WIDTH + 50) * PX
            ELSE /\ result.obstacle_timer = t
                 /\ Len(result.obstacles) = 1

\* C16 happens: the timer passed the gap where min_obstacle_gap decides (EASY,
\* score 1650 and more), and an obstacle was spawned.
SpawnedAtMinimumGap ==
    /\ call.fn = "update"
    /\ call.game.obstacles # <<>>
    /\ call.game.difficulty = "EASY"
    /\ call.game.score >= 1650
    /\ call.game.obstacle_timer = 90
    /\ Len(result.obstacles) = 2

\* C17: spawn_obstacle spawns a dragon with probability min(0.35, score/4000):
\* once the score is above 300, the draw r of random.random() yields a dragon
\* exactly when r < 0.35 and r < score/4000 (r counted in 1/4000), so never
\* on a draw of 0.35 or more; at score 5000 exactly when r < 0.35.
DragonChanceClamped ==
    call.fn = "spawn_obstacle" =>
        LET r == call.rnd.r_dragon
        IN  /\ call.score > 300 =>
                  ((result.kind = "dragon") <=>
                      (20 * r < 7 * RANDOM_UNITS /\ r * 4000 < call.score * RANDOM_UNITS))
            /\ 20 * r >= 7 * RANDOM_UNITS => result.kind # "dragon"
            /\ call.score = 5000 =>
                  ((result.kind = "dragon") <=> (20 * r < 7 * RANDOM_UNITS))

\* C17 happens: at score 5000 the largest draw below 0.35 yielded a dragon.
DragonAtClampedChance ==
    /\ call.fn = "spawn_obstacle"
    /\ call.score = 5000
    /\ 20 * (call.rnd.r_dragon + 1) = 7 * RANDOM_UNITS
    /\ result.kind = "dragon"

\* C18: in a Playing tick with the magnet active, a collectible at distance d
\* from the player's centre (x + width // 2, y + height // 2), 0 < d < 150, is
\* moved before the scroll by 8 (1 - d/150) px toward that centre, and one at
\* d >= 150, or any while the magnet is inactive, is moved by the scroll only.
\* Lengths are in 1/100 px: the length of the move is within 0.03 px of the
\* formula and its direction within the rounding of its two components.
MagnetDisplacement ==
    (call.fn = "update" /\ call.game.collectibles # <<>>
        /\ Len(result.collectibles) = 1) =>
        LET g == call.game
            c == g.collectibles[1]
            u == result.unicorn
            unit == PX \div 100
            R == magnet_range * 100
            dx == (u.x + (unicorn_width \div 2) * PX - c.x) \div unit
            dy == (u.y + (u.height \div 2) * PX - c.y) \div unit
            mx == (result.collectibles[1].x + g.game_speed - c.x) \div unit
            my == (result.collectibles[1].y - c.y) \div unit
            d2 == dx * dx + dy * dy
            d == Isqrt(d2)
            len == Isqrt(mx * mx + my * my)
            Abs(v) == IF v < 0 THEN -v ELSE v
        IN  /\ result.collectibles[1].x + g.game_speed - c.x = mx * unit
            /\ result.collectibles[1].y - c.y = my * unit
            /\ IF u.magnet_active /\ d2 > 0 /\ d2 < R * R
               THEN /\ Abs(len * R - 800 * (R - d)) <= 3 * R
                    /\ mx * dx >= 0
                    /\ my * dy >= 0
                    /\ Abs(mx * dy - my * dx) <= Abs(dx) + Abs(dy)
               ELSE mx = 0 /\ my = 0

\* C18 happens: a coin about 100 px from the player's centre, up and to the
\* right of it, was pulled down and to the left by the active magnet.
MagnetPulledCoin ==
    /\ call.fn = "update"
    /\ call.game.collectibles # <<>>
    /\ Len(result.collectibles) = 1
    /\ result.unicorn.magnet_active
    /\ call.game.collectibles[1].x = (135 + 80) * PX
    /\ call.game.collectibles[1].y = result.unicorn.y + (30 - 60) * PX
    /\ result.collectibles[1].x < call.game.collectibles[1].x - call.game.game_speed
    /\ result.collectibles[1].y > call.game.collectibles[1].y

HighScoreLookupNeverFails == pc # "crashed"

\* C15: saving the high-score mapping and then loading it yields the same
\* mapping, for every mapping of the three difficulties to non-negative
\* integers, when the write succeeds.
SaveThenLoadIsIdentity ==
    ("saved" \in outcome /\ DOMAIN game.high_scores = DifficultyNames) =>
        /\ file.kind = "text"
        /\ _load_high_scores(file) = game.high_scores

\* C15 happens: the mapping {EASY: 10, NORMAL: 20, HARD: 30}, loaded from a
\* file with the keys in another order, was saved (the file's text changed).
ExampleMappingSaved ==
    /\ "saved" \in outcome
    /\ game.high_scores = [EASY |-> 10, NORMAL |-> 20, HARD |-> 30]
    /\ file.text[2] = "EASY"

GuessLoopBounded ==
    [][LET letters == {active_phrase[i] : i \in 1..Len(active_phrase)}
           open == missed < 5 /\ ~(letters \subseteq guesses)
       IN  /\ missed' <= 5
           /\ at = "loop" => at' = (IF open THEN "get_guess" ELSE "play_again")
           /\ at = "get_guess" => open
           /\ (at = "get_guess" /\ at' = "loop") =>
                 \E g \in LowercaseLetters \ guesses :
                    /\ guesses' = guesses \cup {g}
                    /\ missed' = IF g \in letters THEN missed ELSE missed + 1
           /\ (at = "get_guess" /\ at' # "loop") =>
                 /\ at' = "get_guess"
                 /\ missed' = missed
                 /\ guesses' = guesses]_vars

\* C20 happens: a round was lost, the fifth miss ended the loop with letters
\* of the phrase still missing.
RoundLost ==
    /\ at = "play_again"
    /\ missed = 5
    /\ ~check_complete(active_phrase, guesses)

\* C21: in the number-guessing game, after every completed round the high
\* score is the smallest attempt count among the rounds completed so far,
\* and it is never above the high score after the round before; a round's
\* attempt count is the number of lines typed in it that were an integer
\* within 1..100 (the other lines are prompted for again and not counted).
GuessingHighScoreIsMinimum ==
    /\ \A i \in 1..Len(rounds) :
          LET r == rounds[i]
              counts == {rounds[j].attempts : j \in 1..i}
          IN  /\ r.attempts = r.typed.valid
              /\ r.high_score = <<CHOOSE n \in counts : \A k \in counts : n <= k>>
              /\ i > 1 => r.high_score[1] <= rounds[i - 1].high_score[1]
    /\ high_score = IF rounds = <<>> THEN <<>> ELSE rounds[Len(rounds)].high_score
    /\ prompt = "guess" => attempts = typed.valid

\* Three rounds are completed, won in 2, 1 and 3 attempts, with lines typed
\* that were no integer within 1..100: the high score is 1.
ThreeRoundsPlayed ==
    /\ prompt = "play_again"
    /\ Len(rounds) = 3
    /\ rounds[1].attempts = 2
    /\ rounds[2].attempts = 1
    /\ rounds[3].attempts = 3
    /\ rounds[3].typed.invalid = 2
    /\ high_score = <<1>>

EveryPlayerOnOneTeam ==
    call.fn = "balance_teams" =>
        \A p \in 1..Len(call.players) :
            Cardinality({<<t, i>> \in (DOMAIN result) \X (1..Len(call.players)) :
                            i <= Len(result[t]) /\ result[t][i] = call.players[p]}) = 1

\* C24: a live player is never below the ground level of its height.  An
\* update of a live player leaves it at or above that level; when the update
\* finds the player at or below it (y + velocity_y + gravity >= ground_y, for
\* the height before the update) the player ends on the ground level of its
\* height, with velocity_y = 0, is_jumping false and jump_count = 0; and no
\* other call on a live player brings jump_count back to 0.
GroundContactResetsJump ==
    [][~player.is_dying =>
          LET updated == last_call' = "update"
              found == player.y + player.velocity_y
                          + DIFFICULTIES[player.difficulty].gravity
                       >= GroundY(player.height)
          IN  /\ player.y <= GroundY(player.height)
              /\ updated => player'.y <= GroundY(player'.height)
              /\ (updated /\ found) =>
                    /\ player'.y = GroundY(player'.height)
                    /\ player'.velocity_y = 0
                    /\ ~player'.is_jumping
                    /\ player'.jump_count = 0
              /\ (updated /\ ~found) =>
                    /\ player'.y < GroundY(player'.height)
                    /\ player'.jump_count = player.jump_count
              /\ (player.jump_count # 0 /\ player'.jump_count = 0) =>
                    updated /\ found]_vars

\* C24 happens: the player has jumped (the last jump() returned True) and
\* an update has since put it back on the ground with jump_count = 0.
LandedAfterJump ==
    /\ last_call = "update"
    /\ ret
    /\ ~player.is_dying
    /\ player.y = GroundY(player.height)
    /\ player.velocity_y = 0
    /\ ~player.is_jumping
    /\ player.jump_count = 0

\* C25 as stated, its last part: after every duck() and every stand_up()
\* the player stands on the ground level of its height.
OnGroundAfterDuckOrStandUp ==
    [][last_call' \in {"duck", "stand_up"} =>
          player'.y = GroundY(player'.height)]_vars

\* C25: is_ducking holds exactly when height = duck_height, and otherwise
\* height = normal_height.  Ducking is entered only by duck(), on a player
\* that is not dying, not jumping and on the ground; it is left only by
\* stand_up(), by a jump press, or by an update of a live player with the
\* DOWN key released.  A duck() or stand_up() that changes the player, or
\* that is called on a live player that is not jumping, leaves the player on
\* the ground level of its height; on a jumping player, and on a dying one
\* that does not duck, both calls change nothing.
DuckingMatchesHeight ==
    [][LET u == player
           v == player'
           ducked == last_call' = "duck"
           stood == last_call' = "stand_up"
       IN  /\ u.is_ducking <=> u.height = duck_height
           /\ ~u.is_ducking => u.height = normal_height
           /\ v.is_ducking <=> v.height = duck_height
           /\ ~v.is_ducking => v.height = normal_height
           /\ (~u.is_ducking /\ v.is_ducking) =>
                 /\ ducked
                 /\ ~u.is_dying
                 /\ ~u.is_jumping
                 /\ u.y = GroundY(u.height)
           /\ (u.is_ducking /\ ~v.is_ducking) =>
                 \/ stood
                 \/ last_call' = "jump"
                 \/ last_call' = "update" /\ ~u.is_dying
           /\ ((ducked \/ stood) /\ (v # u \/ (~u.is_dying /\ ~u.is_jumping))) =>
                 v.y = GroundY(v.height)
           /\ ((ducked \/ stood) /\ ~u.is_ducking /\ (u.is_jumping \/ u.is_dying)) =>
                 v = u]_vars

\* C25 happens: duck() has put a running player into the ducking state, at
\* the ground level of the lower height.
DuckedOnTheGround ==
    /\ last_call = "duck"
    /\ ~player.is_dying
    /\ player.is_ducking
    /\ player.height = duck_height
    /\ player.y = GroundY(duck_height)
    /\ player.y > GroundY(normal_height)

\* C26: the tick of a fatal collision ends with the collision.  In that tick
\* the score, the speed and the count of collected items stay as they were,
\* no listed collectible or power-up is marked collected and no power-up is
\* activated.  From then on the game is over: no later tick restarts the
\* death animation or the screen shake or touches the high scores, and the
\* score and the speed stay frozen until a reset starts a session at 0.
FatalCollisionEndsTick ==
    [][LET g == game
           h == game'
       IN  /\ (Playing(g) /\ h.game_over) =>
                 /\ h.score = g.score
                 /\ h.game_speed = g.game_speed
                 /\ h.coins_collected = g.coins_collected
                 /\ \A i \in 1..Len(h.collectibles) : ~h.collectibles[i].collected
                 /\ \A i \in 1..Len(h.powerups) : ~h.powerups[i].collected
                 /\ h.unicorn.is_dying
                 /\ h.unicorn.shield_timer <= g.unicorn.shield_timer
                 /\ h.unicorn.magnet_timer <= g.unicorn.magnet_timer
           /\ (g.game_over /\ h.game_over) =>
                 /\ h.score = g.score
                 /\ h.game_speed = g.game_speed
                 /\ h.coins_collected = g.coins_collected
                 /\ h.high_scores = g.high_scores
                 /\ h.screen_shake <= g.screen_shake
                 /\ h.unicorn.death_timer <= g.unicorn.death_timer
                 /\ h.obstacles = g.obstacles
                 /\ h.collectibles = g.collectibles
                 /\ h.powerups = g.powerups
           /\ (g.game_over /\ ~h.game_over) =>
                 /\ h.score = 0
                 /\ h.game_speed = DIFFICULTIES[h.difficulty].initial_speed]_vars

\* C26 happens: the last update ended the session at score 461 in a
\* collision, in a tick in which the player's hit-box also met a star and a
\* magnet power-up: neither is collected and the magnet is not active.
FatalTickWithItemsInReach ==
    /\ "fatal" \in outcome
    /\ game.game_over
    /\ game.score = 461
    /\ game.unicorn.death_timer = death_animation_duration
    /\ ~game.unicorn.magnet_active
    /\ \E i \in 1..Len(game.collectibles) :
          /\ game.collectibles[i].kind = "star"
          /\ ~game.collectibles[i].collected
          /\ colliderect(Unicorn_get_rect(game.unicorn),
                         Entity_get_rect(game.collectibles[i]))
    /\ \E i \in 1..Len(game.powerups) :
          /\ game.powerups[i].type = "magnet"
          /\ ~game.powerups[i].collected
          /\ colliderect(Unicorn_get_rect(game.unicorn),
                         Entity_get_rect(game.powerups[i]))

\* C27: a Playing tick without a fatal collision raises the score by 1
\* plus 50 for every star and 25 for every coin whose hit-box meets the
\* player's in that tick (the player after its move, the collectibles after
\* theirs and after the spawn), marks exactly those collected and counts
\* them in coins_collected; and the score goes down only by a reset to 0.
ScoreCountsCollectibles ==
    [][LET g == game
           h == game'
           r == Unicorn_get_rect(h.unicorn)
           hits == {i \in 1..Len(h.collectibles) :
                       colliderect(r, Entity_get_rect(h.collectibles[i]))}
           RECURSIVE Total(_)
           Total(S) ==
               IF S = {} THEN 0
               ELSE LET i == CHOOSE j \in S : TRUE
                    IN  (IF h.collectibles[i].kind = "star" THEN 50 ELSE 25)
                        + Total(S \ {i})
       IN  /\ (pc = "update" /\ Playing(g) /\ ~h.game_over) =>
                 /\ h.score = g.score + 1 + Total(hits)
                 /\ h.coins_collected = g.coins_collected + Cardinality(hits)
                 /\ \A i \in 1..Len(h.collectibles) :
                       h.collectibles[i].collected <=> i \in hits
           /\ h.score < g.score =>
                 /\ h.score = 0
                 /\ h.coins_collected = 0
                 /\ h.collectibles = <<>>]_vars

\* C27 happens: the player jumped into a star and a coin and the last
\* update collected both, taking the score from 77 to 153.
StarAndCoinInOneTick ==
    /\ Playing(game)
    /\ game.score = 153
    /\ game.coins_collected = 2
    /\ Len(game.collectibles) = 2
    /\ game.collectibles[1].kind = "star"
    /\ game.collectibles[1].collected
    /\ game.collectibles[2].kind = "coin"
    /\ game.collectibles[2].collected

\* C28: spawn_obstacle at a score of at most 300 appends a rock, whatever
\* the draws (also on a draw of 0, below every positive dragon chance); at
\* 301 a draw below 301/4000 appends a dragon.
NoDragonUpTo300 ==
    call.fn = "spawn_obstacle" =>
        /\ call.score <= 300 =>
              /\ result.kind = "rock"
              /\ result.variant = IF 5 * call.rnd.r_crystal < RANDOM_UNITS
                                  THEN "crystal" ELSE call.rnd.variant
        /\ (call.score = 301 /\ call.rnd.r_dragon = 300) => result.kind = "dragon"

\* C28 happens: at score 300 the draw 0, below the dragon chance 300/4000,
\* gave a rock.
RockAtScore300 ==
    /\ call.fn = "spawn_obstacle"
    /\ call.score = 300
    /\ call.rnd.r_dragon = 0
    /\ result.kind = "rock"

\* C29: a Playing tick that starts at a score of at most 200, with no
\* power-up on the screen and none active (as a session starts), spawns no
\* power-up whatever the draw and ends with none on the screen and none
\* active; at a score above 200 it spawns one exactly when the draw is below
\* 0.005, of the drawn type.
NoPowerUpUpTo200 ==
    (call.fn = "update" /\ call.game.powerups = <<>>) =>
        LET g == call.game
            drawn == 1000 * call.rnd.r_power < 5 * RANDOM_UNITS
        IN  /\ (/\ g.score <= 200
                /\ ~g.unicorn.shield_active
                /\ ~g.unicorn.magnet_active) =>
                  /\ result.powerups = <<>>
                  /\ ~result.unicorn.shield_active
                  /\ ~result.unicorn.magnet_active
            /\ g.score > 200 =>
                  /\ Len(result.powerups) = (IF drawn THEN 1 ELSE 0)
                  /\ drawn => result.powerups[1].type = call.rnd.power_type

\* C29 happens: at score 200 the draw 0 spawned no power-up, in a tick that
\* ended at score 201.
NoPowerUpAtScore200 ==
    /\ call.fn = "update"
    /\ call.game.score = 200
    /\ call.rnd.r_power = 0
    /\ result.score = 201
    /\ result.powerups = <<>>

\* C30 as stated, its last part: the spawner runs before the movement, so an
\* obstacle spawned in a tick has been advanced by that tick's scroll at the
\* end of the tick.
SpawnedObstacleAdvanced ==
    (call.fn = "update" /\ Len(result.obstacles) > Len(call.game.obstacles)) =>
        result.obstacles[Len(result.obstacles)].x
            = (SCREEN_WIDTH + 50) * PX - call.game.game_speed

\* C30: a Playing tick runs the entity movement before the spawners and the
\* scoring before the speed: at its end the obstacles that were listed have
\* moved by the speed the tick started with, an obstacle or power-up spawned
\* in it is still at its spawn position x = SCREEN_WIDTH + 50, the spawners
\* have decided on the score the tick started with, a collectible is
\* collected exactly when its hit-box after the move meets the player's
\* after the physics, and the speed is the one of the score the tick ends
\* with.
TickOrder ==
    (call.fn = "update" /\ call.game.powerups = <<>>) =>
        LET g == call.game
            h == result
            d == DIFFICULTIES[g.difficulty]
            r == Unicorn_get_rect(h.unicorn)
            hits == {i \in 1..Len(h.collectibles) :
                        colliderect(r, Entity_get_rect(h.collectibles[i]))}
            uncapped == d.initial_speed + h.score * d.speed_increment
        IN  /\ Len(h.obstacles) >= Len(g.obstacles)
            /\ \A i \in 1..Len(h.obstacles) :
                  h.obstacles[i].x = IF i <= Len(g.obstacles)
                                     THEN g.obstacles[i].x - g.game_speed
                                     ELSE (SCREEN_WIDTH + 50) * PX
            /\ \A i \in 1..Len(h.powerups) : h.powerups[i].x = (SCREEN_WIDTH + 50) * PX
            /\ g.score <= 200 => h.powerups = <<>>
            /\ \A i \in 1..Len(h.collectibles) :
                  h.collectibles[i].collected <=> i \in hits
            /\ h.score = g.score + 1 + 25 * Cardinality(hits)
            /\ h.game_speed = IF uncapped < d.max_speed THEN uncapped ELSE d.max_speed

\* C30 happens: in one tick the rock on the screen moved, an obstacle and a
\* power-up were spawned, and both are at x = SCREEN_WIDTH + 50 at its end.
SpawnedAtSpawnPosition ==
    /\ call.fn = "update"
    /\ Len(call.game.obstacles) = 1
    /\ Len(result.obstacles) = 2
    /\ result.obstacles[1].x < call.game.obstacles[1].x
    /\ result.obstacles[2].x = (SCREEN_WIDTH + 50) * PX
    /\ Len(result.powerups) = 1
    /\ result.powerups[1].x = (SCREEN_WIDTH + 50) * PX

\* C31: at the end of a Playing tick no listed obstacle, collectible or
\* power-up has its right edge x + width left of 0, and the tick has kept, in
\* order, every entity it started with whose right edge after the move (for a
\* collectible: after the magnet pull and the move) is at 0 or beyond; what
\* follows them in a list is what the tick spawned.
EntitiesPrunedWhenFullyLeft ==
    call.fn \in {"update", "update_at_edge"} =>
        LET g == call.game
            h == result
            Right(e) == e.x + e.width * PX
            OnScreen(e) == Right(e) >= 0
            Uncollected(e) == [e EXCEPT !.collected = FALSE]
            MovedObstacle(o) == Obstacle_update(o, g.game_speed)
            MovedCollectible(c) ==
                Entity_update(IF h.unicorn.magnet_active
                              THEN MagnetPull(c, h.unicorn) ELSE c, g.game_speed)
            MovedPowerUp(p) == Entity_update(p, g.game_speed)
            obs == SelectSeq(MapSeq(g.obstacles, MovedObstacle), OnScreen)
            cs == SelectSeq(MapSeq(g.collectibles, MovedCollectible), OnScreen)
            ps == SelectSeq(MapSeq(g.powerups, MovedPowerUp), OnScreen)
            Kept(kept, now) ==
                /\ Len(now) \in {Len(kept), Len(kept) + 1}
                /\ \A i \in 1..Len(kept) : Uncollected(now[i]) = kept[i]
                /\ \A i \in 1..Len(now) : OnScreen(now[i])
        IN  /\ Kept(obs, h.obstacles)
            /\ Kept(cs, h.collectibles)
            /\ Kept(ps, h.powerups)

\* C31 happens: in one tick a dragon and a power-up whose right edges came
\* to 1/PX px left of 0 were removed, and a collectible whose right edge came
\* to 0 was kept.
FullyLeftRemovedEdgeKept ==
    /\ call.fn = "update_at_edge"
    /\ Len(call.game.obstacles) = 1
    /\ call.game.obstacles[1].kind = "dragon"
    /\ Len(call.game.powerups) = 1
    /\ Len(call.game.collectibles) = 1
    /\ result.obstacles = <<>>
    /\ result.powerups = <<>>
    /\ Len(result.collectibles) = 1
    /\ result.collectibles[1].x + result.collectibles[1].width * PX = 0

\* C32: a collectible or power-up that enters a Playing tick marked
\* collected is not listed after it: the lists the tick's collision checks
\* see (and leave) are the uncollected entities the tick started with, moved,
\* those off the screen removed, and then what the tick spawned.  So the
\* entities marked collected after a tick without a fatal collision are
\* those the player picked up in it, a timer is at its full duration only
\* after a pickup in the tick, and an update() that is not a Playing tick
\* changes neither the lists nor the score.
CollectedAtMostOnce ==
    [][pc = "update" =>
          LET g == game
              h == game'
              u1 == Unicorn_update(g.unicorn, keys_down)
              r == Unicorn_get_rect(h.unicorn)
              Fresh(e) == ~e.collected
              OnScreen(e) == e.x + e.width * PX >= 0
              InFlight(e) == e.x < (SCREEN_WIDTH + 50) * PX
              Uncollected(e) == [e EXCEPT !.collected = FALSE]
              MovedCollectible(c) ==
                  Entity_update(IF u1.magnet_active THEN MagnetPull(c, u1) ELSE c,
                                g.game_speed)
              MovedPowerUp(q) == Entity_update(q, g.game_speed)
              PickedUp(t) == \E i \in 1..Len(h.powerups) :
                                /\ h.powerups[i].collected
                                /\ h.powerups[i].type = t
          IN  IF Playing(g)
              THEN /\ MapSeq(SelectSeq(h.collectibles, InFlight), Uncollected)
                        = SelectSeq(MapSeq(SelectSeq(g.collectibles, Fresh),
                                           MovedCollectible), OnScreen)
                   /\ MapSeq(SelectSeq(h.powerups, InFlight), Uncollected)
                        = SelectSeq(MapSeq(SelectSeq(g.powerups, Fresh),
                                           MovedPowerUp), OnScreen)
                   /\ ~h.game_over =>
                         /\ \A i \in 1..Len(h.powerups) :
                               h.powerups[i].collected
                                   <=> colliderect(r, Entity_get_rect(h.powerups[i]))
                         /\ h.unicorn.shield_timer = shield_duration <=> PickedUp("shield")
                         /\ h.unicorn.magnet_timer = magnet_duration <=> PickedUp("magnet")
              ELSE /\ h.collectibles = g.collectibles
                   /\ h.powerups = g.powerups
                   /\ h.score = g.score
                   /\ h.coins_collected = g.coins_collected]_vars

\* C32 happens: the shield power-up picked up in the tick before was removed
\* in the last one, in which the player still stood where it had been.
PickedUpPowerUpRemoved ==
    /\ Playing(game)
    /\ game.score = 394
    /\ game.powerups = <<>>
    /\ game.unicorn.shield_active
    /\ game.unicorn.shield_timer = shield_duration - 1

\* C33: the player is never ducking and jumping at once, whatever the order
\* of jump(), duck(), stand_up(), start_death_animation() and update() calls.
NeverDuckingAndJumping == ~(player.is_ducking /\ player.is_jumping)

\* C33 happens: duck() was called on a player in the air after a second
\* jump, and the player is still jumping and not ducking.
DuckCalledInTheAir ==
    /\ last_call = "duck"
    /\ player.is_jumping
    /\ player.jump_count = max_jumps
    /\ player.y < GroundY(normal_height)
    /\ ~player.is_ducking
    /\ ~player.is_dying

\* C34: paused and game_over never hold together, and a dying player
\* implies game_over; no step of a paused game ends the session, and no step
\* from a game that is over leads to a paused one.
NeverPausedAndGameOver ==
    /\ [](/\ ~(game.paused /\ game.game_over)
          /\ game.unicorn.is_dying => game.game_over)
    /\ [][/\ game.paused => ~game'.game_over
          /\ game.game_over => ~game'.paused]_vars

\* C34 happens: the session ended, M brought the menu back, and the player
\* is still dying in a game that is over and not paused.
DyingBehindTheMenu ==
    /\ game.show_menu
    /\ game.game_over
    /\ game.unicorn.is_dying
    /\ ~game.paused

\* C35: a KEYDOWN event that leaves the menu (1, 2, 3, SPACE, RETURN),
\* restarts after game over (SPACE, 1, 2, 3) or restarts during play (R,
\* paused or not) leaves a fresh session of the selected difficulty (the key's,
\* or the current one for SPACE, RETURN and R): score, coins_collected and
\* obstacle_timer 0, no obstacle, collectible or power-up, a new player on the
\* ground without power-ups, not paused, not over, at the difficulty's
\* initial speed.  Whatever step leaves the menu leaves it for such a
\* session, so a session interrupted by M is never resumed.
StartsFreshSession ==
    [][LET g == game
           h == game'
           Fresh(d) ==
               /\ ~h.show_menu /\ ~h.paused /\ ~h.game_over
               /\ h.difficulty = d
               /\ h.score = 0 /\ h.coins_collected = 0 /\ h.obstacle_timer = 0
               /\ h.obstacles = <<>> /\ h.collectibles = <<>> /\ h.powerups = <<>>
               /\ h.game_speed = DIFFICULTIES[d].initial_speed
               /\ h.unicorn.difficulty = d
               /\ h.unicorn.height = normal_height
               /\ h.unicorn.y = (SCREEN_HEIGHT - GROUND_HEIGHT - normal_height) * PX
               /\ h.unicorn.velocity_y = 0 /\ h.unicorn.jump_count = 0
               /\ ~h.unicorn.is_jumping /\ ~h.unicorn.is_ducking /\ ~h.unicorn.is_dying
               /\ ~h.unicorn.shield_active /\ ~h.unicorn.magnet_active
               /\ h.high_scores = g.high_scores
           Selected(k) == CASE k = "K_1" -> "EASY" [] k = "K_2" -> "NORMAL"
                            [] k = "K_3" -> "HARD" [] OTHER -> g.difficulty
           Starts(k) ==
               IF g.show_menu THEN k \in {"K_1", "K_2", "K_3", "K_SPACE", "K_RETURN"}
               ELSE IF g.game_over THEN k \in {"K_1", "K_2", "K_3", "K_SPACE"}
               ELSE k = "K_r"
       IN  /\ \A k \in Keys :
                 (pc = "handle_events" /\ Starts(k) /\ h = HandleKeyDown(g, k))
                     => Fresh(Selected(k))
           /\ (g.show_menu /\ ~h.show_menu) => Fresh(h.difficulty)]_vars

\* C35 happens: a session on HARD ended with a high score, and a press of 1
\* started a session on EASY that has not run a tick yet.
RestartedOnEasy ==
    /\ pc = "handle_events"
    /\ ~game.show_menu
    /\ game.difficulty = "EASY"
    /\ game.high_scores["HARD"] > 0
    /\ game.score = 0
    /\ game.game_speed = DIFFICULTIES["EASY"].initial_speed
    /\ game.unicorn = NewUnicorn("EASY")

\* C36: no step lowers the high score of a difficulty, and a step that
\* raises it is a Playing tick of a session of that difficulty that ends in
\* a fatal collision, at a score above the high score it replaces.
HighScoreNeverDecreases ==
    [][\A d \in DOMAIN game.high_scores :
          /\ DOMAIN game'.high_scores = DOMAIN game.high_scores
          /\ game'.high_scores[d] >= game.high_scores[d]
          /\ game'.high_scores[d] # game.high_scores[d] =>
                /\ pc = "update"
                /\ ~game.show_menu /\ ~game.paused /\ ~game.game_over
                /\ game.difficulty = d
                /\ game'.game_over
                /\ game'.unicorn.is_dying
                /\ game'.high_scores[d] = game.score]_vars

\* C36 happens: a second session on HARD ended in a collision below the
\* high score of the first, which stands.
SecondSessionBelowHighScore ==
    /\ "fatal" \in outcome
    /\ game.game_over
    /\ game.difficulty = "HARD"
    /\ game.score < game.high_scores["HARD"]

\* C37: the flipped list never holds more than two cards; while the state is
\* 'playing' the board is disabled exactly when it holds two; a click on any
\* card of a disabled board returns the game as it was, and as long as the
\* game stays disabled and playing, no step changes a card, the flipped list
\* or the attempts.
BoardDisabledWithTwoFlipped ==
    /\ [](/\ Len(memory.flipped) <= 2
          /\ memory.state = "playing" =>
                (memory.disabled <=> Len(memory.flipped) = 2)
          /\ (memory.state = "playing" /\ memory.disabled) =>
                \A i \in 1..Len(memory.cards) :
                    handle_click(memory,
                                 <<memory.cards[i].x + memory.cards[i].width \div 2,
                                   memory.cards[i].y + memory.cards[i].height \div 2>>,
                                 [first |-> [cut |-> 0, stride |-> 1],
                                  second |-> [cut |-> 0, stride |-> 1]]) = memory)
    /\ [][(/\ memory.state = "playing" /\ memory.disabled
           /\ memory'.state = "playing" /\ memory'.disabled) =>
              /\ memory'.cards = memory.cards
              /\ memory'.flipped = memory.flipped
              /\ memory'.attempts = memory.attempts]_vars

\* C37 happens: the second attempt turned up two different cards, the board
\* is disabled, and half a second of the 0.9 s has passed.
TwoDifferentCardsUp ==
    /\ memory.state = "playing"
    /\ memory.disabled
    /\ memory.attempts = 2
    /\ Len(memory.flipped) = 2
    /\ memory.cards[memory.flipped[1]].pair_id # memory.cards[memory.flipped[2]].pair_id
    /\ memory.disable_until = 4

\* C38: matched_count is the number of pair ids whose two cards are both
\* matched; the matched cards are face up and are those pairs and no other
\* card; during a game a matched card stays matched and face up; the state
\* is 'victory' only with matched_count at the number of pairs, 'playing'
\* only with it below, and a step into 'victory' is the one that takes
\* matched_count to the number of pairs.
MatchedCountCountsPairs ==
    /\ [](LET cards == memory.cards
              Matched == {i \in 1..Len(cards) : cards[i].matched}
              Both(p) == \E i, j \in Matched :
                            i # j /\ cards[i].pair_id = p /\ cards[j].pair_id = p
              done == {p \in {cards[i].pair_id : i \in 1..Len(cards)} : Both(p)}
          IN  /\ memory.matched_count = Cardinality(done)
              /\ Cardinality(Matched) = 2 * Cardinality(done)
              /\ \A i \in Matched : cards[i].flipped /\ cards[i].pair_id \in done
              /\ memory.state = "victory" =>
                    memory.matched_count = MemoryDifficulties[memory.difficulty].pairs
              /\ memory.state = "playing" =>
                    memory.matched_count < MemoryDifficulties[memory.difficulty].pairs)
    /\ [][/\ memory.state = "playing" =>
                \A i \in 1..Len(memory.cards) :
                    memory.cards[i].matched =>
                        /\ memory'.cards[i].matched
                        /\ memory'.cards[i].flipped
                        /\ memory'.cards[i].pair_id = memory.cards[i].pair_id
          /\ (memory'.state = "victory" /\ memory.state # "victory") =>
                /\ memory.state = "playing"
                /\ memory'.matched_count = memory.matched_count + 1]_vars

\* C38 happens: the sixth pair of the easy game was matched and the game is
\* won.
EasyGameWon ==
    /\ memory.state = "victory"
    /\ memory.difficulty = "easy"
    /\ memory.matched_count = 6
    /\ \A i \in 1..Len(memory.cards) : memory.cards[i].matched

\* C39: start_game deals 2 * pairs = cols * rows cards: every pair id of
\* 0..pairs-1 is on exactly two cards, which have the same rank and suit,
\* cards of different pair ids differ in rank or suit, and the cards lie on
\* the cols * rows places of the grid, one on each, inside the screen.
DeckHasEveryPairTwice ==
    call.fn = "start_game" =>
        LET config == MemoryDifficulties[call.difficulty_key]
            cards == result.cards
            n == Len(cards)
            With(p) == {i \in 1..n : cards[i].pair_id = p}
        IN  /\ n = 2 * config.pairs
            /\ n = config.cols * config.rows
            /\ {cards[i].pair_id : i \in 1..n} = 0..(config.pairs - 1)
            /\ \A p \in 0..(config.pairs - 1) : Cardinality(With(p)) = 2
            /\ \A i, j \in 1..n :
                  (cards[i].pair_id = cards[j].pair_id)
                      <=> (cards[i].rank = cards[j].rank /\ cards[i].suit = cards[j].suit)
            /\ Cardinality({cards[i].x : i \in 1..n}) = config.cols
            /\ Cardinality({cards[i].y : i \in 1..n}) = config.rows
            /\ Cardinality({<<cards[i].x, cards[i].y>> : i \in 1..n}) = n
            /\ \A i \in 1..n :
                  /\ cards[i].x >= 0 /\ cards[i].x + cards[i].width <= 800
                  /\ cards[i].y >= 0 /\ cards[i].y + cards[i].height <= 700
            /\ result.state = "playing"

\* C39 happens: an expert game was dealt from a pack cut at 3 and dealt seven
\* apart: 24 cards.
ExpertDeckDealt ==
    /\ call.fn = "start_game"
    /\ call.difficulty_key = "expert"
    /\ call.rnd.first = [cut |-> 3, stride |-> 7]
    /\ call.rnd.second = [cut |-> 3, stride |-> 7]
    /\ Len(result.cards) = 24

\* C40: when a Phrase Hunter round ends, exactly one of two outcomes holds:
\* missed = 5 with a character of the phrase not in guesses, reported as a
\* loss, or missed < 5 with every character of the phrase in guesses,
\* reported as a win; and guesses never holds a letter twice: every letter
\* appended to it was not in it before.
RoundEndsWonOrLost ==
    /\ [](at = "play_again" =>
             LET complete == \A i \in 1..Len(active_phrase) : active_phrase[i] \in guesses
             IN  \/ missed = 5 /\ ~complete /\ game_over(missed) = "lost"
                 \/ missed < 5 /\ complete /\ game_over(missed) = "won")
    /\ [][(at = "get_guess" /\ at' = "loop") =>
             Cardinality(guesses') = Cardinality(guesses) + 1]_vars

\* C40 happens: a round was won with four misses, the last letter of the
\* phrase ending the loop.
RoundWonAfterFourMisses ==
    /\ at = "play_again"
    /\ missed = 4
    /\ check_complete(active_phrase, guesses)
    /\ game_over(missed) = "won"

====
